---- MODULE Spec2Model ----
(***************************************************************************)
(* A model of the register pipelines of src/pipeline: normalisation, row   *)
(* fingerprinting, change detection against the persisted key-hash table,  *)
(* and publication of the output files and the metadata document.          *)
(*                                                                         *)
(* Text is modelled as sequences of characters, so that concatenation,     *)
(* case folding and trimming are computed as Python computes them.  A cell *)
(* of a data frame is a tagged value: text, a boolean, NaN (an empty CSV   *)
(* cell as pandas reads it) or None.                                       *)
(***************************************************************************)
EXTENDS Integers, Sequences, FiniteSets, TLC

(* ----------------------------- text ------------------------------------ *)

(* A text is a sequence of characters.  A printable character of Latin-1    *)
(* is the one-character string of itself, the escapes \t, \n, \r and \f   *)
(* stand for themselves, and any other character is written by its code    *)
(* point, "U+00A0" (so is the grave accent, "U+0060").  The case mappings  *)
(* are those of Python's str.upper() and str.lower(), Unicode 14.          *)

LowerAlpha ==
    <<"a", "b", "c", "d", "e", "f", "g", "h", "i", "j", "k", "l", "m",
      "n", "o", "p", "q", "r", "s", "t", "u", "v", "w", "x", "y", "z">>

UpperAlpha ==
    <<"A", "B", "C", "D", "E", "F", "G", "H", "I", "J", "K", "L", "M",
      "N", "O", "P", "Q", "R", "S", "T", "U", "V", "W", "X", "Y", "Z">>

\* the letters c whose str.upper() is one letter u with u.lower() = c:
\* LowerLetters[i] and UpperLetters[i] are such a pair
LowerLetters ==
    <<"a", "b", "c", "d", "e", "f", "g", "h", "i", "j", "k", "l", "m", "n", "o", "p", "q",
      "r", "s", "t", "u", "v", "w", "x", "y", "z", "à", "á", "â", "ã", "ä", "å", "æ", "ç",
      "è", "é", "ê", "ë", "ì", "í", "î", "ï", "ð", "ñ", "ò", "ó", "ô", "õ", "ö", "ø", "ù",
      "ú", "û", "ü", "ý", "þ", "ÿ", "U+0101", "U+0103", "U+0105", "U+0107", "U+0109",
      "U+010B", "U+010D", "U+010F", "U+0111", "U+0113", "U+0115", "U+0117", "U+0119",
      "U+011B", "U+011D", "U+011F", "U+0121", "U+0123", "U+0125", "U+0127", "U+0129",
      "U+012B", "U+012D", "U+012F", "U+0133", "U+0135", "U+0137", "U+013A", "U+013C",
      "U+013E", "U+0140", "U+0142", "U+0144", "U+0146", "U+0148", "U+014B", "U+014D",
      "U+014F", "U+0151", "U+0153", "U+0155", "U+0157", "U+0159", "U+015B", "U+015D",
      "U+015F", "U+0161", "U+0163", "U+0165", "U+0167", "U+0169", "U+016B", "U+016D",
      "U+016F", "U+0171", "U+0173", "U+0175", "U+0177", "U+017A", "U+017C", "U+017E",
      "U+0180", "U+0183", "U+0185", "U+0188", "U+018C", "U+0192", "U+0195", "U+0199",
      "U+019A", "U+019E", "U+01A1", "U+01A3", "U+01A5", "U+01A8", "U+01AD", "U+01B0",
      "U+01B4", "U+01B6", "U+01B9", "U+01BD", "U+01BF", "U+01C6", "U+01C9", "U+01CC",
      "U+01CE", "U+01D0", "U+01D2", "U+01D4", "U+01D6", "U+01D8", "U+01DA", "U+01DC",
      "U+01DD", "U+01DF", "U+01E1", "U+01E3", "U+01E5", "U+01E7", "U+01E9", "U+01EB",
      "U+01ED", "U+01EF", "U+01F3", "U+01F5", "U+01F9", "U+01FB", "U+01FD", "U+01FF",
      "U+0201", "U+0203", "U+0205", "U+0207", "U+0209", "U+020B", "U+020D", "U+020F",
      "U+0211", "U+0213", "U+0215", "U+0217", "U+0219", "U+021B", "U+021D", "U+021F",
      "U+0223", "U+0225", "U+0227", "U+0229", "U+022B", "U+022D", "U+022F", "U+0231",
      "U+0233", "U+023C", "U+023F", "U+0240", "U+0242", "U+0247", "U+0249", "U+024B",
      "U+024D", "U+024F", "U+0250", "U+0251", "U+0252", "U+0253", "U+0254", "U+0256",
      "U+0257", "U+0259", "U+025B", "U+025C", "U+0260", "U+0261", "U+0263", "U+0265",
      "U+0266", "U+0268", "U+0269", "U+026A", "U+026B", "U+026C", "U+026F", "U+0271",
      "U+0272", "U+0275", "U+027D", "U+0280", "U+0282", "U+0283", "U+0287", "U+0288",
      "U+0289", "U+028A", "U+028B", "U+028C", "U+0292", "U+029D", "U+029E", "U+0371",
      "U+0373", "U+0377", "U+037B", "U+037C", "U+037D", "U+03AC", "U+03AD", "U+03AE",
      "U+03AF", "U+03B1", "U+03B2", "U+03B3", "U+03B4", "U+03B5", "U+03B6", "U+03B7",
      "U+03B8", "U+03B9", "U+03BA", "U+03BB", "U+03BC", "U+03BD", "U+03BE", "U+03BF",
      "U+03C0", "U+03C1", "U+03C3", "U+03C4", "U+03C5", "U+03C6", "U+03C7", "U+03C8",
      "U+03C9", "U+03CA", "U+03CB", "U+03CC", "U+03CD", "U+03CE", "U+03D7", "U+03D9",
      "U+03DB", "U+03DD", "U+03DF", "U+03E1", "U+03E3", "U+03E5", "U+03E7", "U+03E9",
      "U+03EB", "U+03ED", "U+03EF", "U+03F2", "U+03F3", "U+03F8", "U+03FB", "U+0430",
      "U+0431", "U+0432", "U+0433", "U+0434", "U+0435", "U+0436", "U+0437", "U+0438",
      "U+0439", "U+043A", "U+043B", "U+043C", "U+043D", "U+043E", "U+043F", "U+0440",
      "U+0441", "U+0442", "U+0443", "U+0444", "U+0445", "U+0446", "U+0447", "U+0448",
      "U+0449", "U+044A", "U+044B", "U+044C", "U+044D", "U+044E", "U+044F", "U+0450",
      "U+0451", "U+0452", "U+0453", "U+0454", "U+0455", "U+0456", "U+0457", "U+0458",
      "U+0459", "U+045A", "U+045B", "U+045C", "U+045D", "U+045E", "U+045F", "U+0461",
      "U+0463", "U+0465", "U+0467", "U+0469", "U+046B", "U+046D", "U+046F", "U+0471",
      "U+0473", "U+0475", "U+0477", "U+0479", "U+047B", "U+047D", "U+047F", "U+0481",
      "U+048B", "U+048D", "U+048F", "U+0491", "U+0493", "U+0495", "U+0497", "U+0499",
      "U+049B", "U+049D", "U+049F", "U+04A1", "U+04A3", "U+04A5", "U+04A7", "U+04A9",
      "U+04AB", "U+04AD", "U+04AF", "U+04B1", "U+04B3", "U+04B5", "U+04B7", "U+04B9",
      "U+04BB", "U+04BD", "U+04BF", "U+04C2", "U+04C4", "U+04C6", "U+04C8", "U+04CA",
      "U+04CC", "U+04CE", "U+04CF", "U+04D1", "U+04D3", "U+04D5", "U+04D7", "U+04D9",
      "U+04DB", "U+04DD", "U+04DF", "U+04E1", "U+04E3", "U+04E5", "U+04E7", "U+04E9",
      "U+04EB", "U+04ED", "U+04EF", "U+04F1", "U+04F3", "U+04F5", "U+04F7", "U+04F9",
      "U+04FB", "U+04FD", "U+04FF", "U+0501", "U+0503", "U+0505", "U+0507", "U+0509",
      "U+050B", "U+050D", "U+050F", "U+0511", "U+0513", "U+0515", "U+0517", "U+0519",
      "U+051B", "U+051D", "U+051F", "U+0521", "U+0523", "U+0525", "U+0527", "U+0529",
      "U+052B", "U+052D", "U+052F", "U+0561", "U+0562", "U+0563", "U+0564", "U+0565",
      "U+0566", "U+0567", "U+0568", "U+0569", "U+056A", "U+056B", "U+056C", "U+056D",
      "U+056E", "U+056F", "U+0570", "U+0571", "U+0572", "U+0573", "U+0574", "U+0575",
      "U+0576", "U+0577", "U+0578", "U+0579", "U+057A", "U+057B", "U+057C", "U+057D",
      "U+057E", "U+057F", "U+0580", "U+0581", "U+0582", "U+0583", "U+0584", "U+0585",
      "U+0586", "U+10D0", "U+10D1", "U+10D2", "U+10D3", "U+10D4", "U+10D5", "U+10D6",
      "U+10D7", "U+10D8", "U+10D9", "U+10DA", "U+10DB", "U+10DC", "U+10DD", "U+10DE",
      "U+10DF", "U+10E0", "U+10E1", "U+10E2", "U+10E3", "U+10E4", "U+10E5", "U+10E6",
      "U+10E7", "U+10E8", "U+10E9", "U+10EA", "U+10EB", "U+10EC", "U+10ED", "U+10EE",
      "U+10EF", "U+10F0", "U+10F1", "U+10F2", "U+10F3", "U+10F4", "U+10F5", "U+10F6",
      "U+10F7", "U+10F8", "U+10F9", "U+10FA", "U+10FD", "U+10FE", "U+10FF", "U+13F8",
      "U+13F9", "U+13FA", "U+13FB", "U+13FC", "U+13FD", "U+1D79", "U+1D7D", "U+1D8E",
      "U+1E01", "U+1E03", "U+1E05", "U+1E07", "U+1E09", "U+1E0B", "U+1E0D", "U+1E0F",
      "U+1E11", "U+1E13", "U+1E15", "U+1E17", "U+1E19", "U+1E1B", "U+1E1D", "U+1E1F",
      "U+1E21", "U+1E23", "U+1E25", "U+1E27", "U+1E29", "U+1E2B", "U+1E2D", "U+1E2F",
      "U+1E31", "U+1E33", "U+1E35", "U+1E37", "U+1E39", "U+1E3B", "U+1E3D", "U+1E3F",
      "U+1E41", "U+1E43", "U+1E45", "U+1E47", "U+1E49", "U+1E4B", "U+1E4D", "U+1E4F",
      "U+1E51", "U+1E53", "U+1E55", "U+1E57", "U+1E59", "U+1E5B", "U+1E5D", "U+1E5F",
      "U+1E61", "U+1E63", "U+1E65", "U+1E67", "U+1E69", "U+1E6B", "U+1E6D", "U+1E6F",
      "U+1E71", "U+1E73", "U+1E75", "U+1E77", "U+1E79", "U+1E7B", "U+1E7D", "U+1E7F",
      "U+1E81", "U+1E83", "U+1E85", "U+1E87", "U+1E89", "U+1E8B", "U+1E8D", "U+1E8F",
      "U+1E91", "U+1E93", "U+1E95", "U+1EA1", "U+1EA3", "U+1EA5", "U+1EA7", "U+1EA9",
      "U+1EAB", "U+1EAD", "U+1EAF", "U+1EB1", "U+1EB3", "U+1EB5", "U+1EB7", "U+1EB9",
      "U+1EBB", "U+1EBD", "U+1EBF", "U+1EC1", "U+1EC3", "U+1EC5", "U+1EC7", "U+1EC9",
      "U+1ECB", "U+1ECD", "U+1ECF", "U+1ED1", "U+1ED3", "U+1ED5", "U+1ED7", "U+1ED9",
      "U+1EDB", "U+1EDD", "U+1EDF", "U+1EE1", "U+1EE3", "U+1EE5", "U+1EE7", "U+1EE9",
      "U+1EEB", "U+1EED", "U+1EEF", "U+1EF1", "U+1EF3", "U+1EF5", "U+1EF7", "U+1EF9",
      "U+1EFB", "U+1EFD", "U+1EFF", "U+1F00", "U+1F01", "U+1F02", "U+1F03", "U+1F04",
      "U+1F05", "U+1F06", "U+1F07", "U+1F10", "U+1F11", "U+1F12", "U+1F13", "U+1F14",
      "U+1F15", "U+1F20", "U+1F21", "U+1F22", "U+1F23", "U+1F24", "U+1F25", "U+1F26",
      "U+1F27", "U+1F30", "U+1F31", "U+1F32", "U+1F33", "U+1F34", "U+1F35", "U+1F36",
      "U+1F37", "U+1F40", "U+1F41", "U+1F42", "U+1F43", "U+1F44", "U+1F45", "U+1F51",
      "U+1F53", "U+1F55", "U+1F57", "U+1F60", "U+1F61", "U+1F62", "U+1F63", "U+1F64",
      "U+1F65", "U+1F66", "U+1F67", "U+1F70", "U+1F71", "U+1F72", "U+1F73", "U+1F74",
      "U+1F75", "U+1F76", "U+1F77", "U+1F78", "U+1F79", "U+1F7A", "U+1F7B", "U+1F7C",
      "U+1F7D", "U+1FB0", "U+1FB1", "U+1FD0", "U+1FD1", "U+1FE0", "U+1FE1", "U+1FE5",
      "U+214E", "U+2170", "U+2171", "U+2172", "U+2173", "U+2174", "U+2175", "U+2176",
      "U+2177", "U+2178", "U+2179", "U+217A", "U+217B", "U+217C", "U+217D", "U+217E",
      "U+217F", "U+2184", "U+24D0", "U+24D1", "U+24D2", "U+24D3", "U+24D4", "U+24D5",
      "U+24D6", "U+24D7", "U+24D8", "U+24D9", "U+24DA", "U+24DB", "U+24DC", "U+24DD",
      "U+24DE", "U+24DF", "U+24E0", "U+24E1", "U+24E2", "U+24E3", "U+24E4", "U+24E5",
      "U+24E6", "U+24E7", "U+24E8", "U+24E9", "U+2C30", "U+2C31", "U+2C32", "U+2C33",
      "U+2C34", "U+2C35", "U+2C36", "U+2C37", "U+2C38", "U+2C39", "U+2C3A", "U+2C3B",
      "U+2C3C", "U+2C3D", "U+2C3E", "U+2C3F", "U+2C40", "U+2C41", "U+2C42", "U+2C43",
      "U+2C44", "U+2C45", "U+2C46", "U+2C47", "U+2C48", "U+2C49", "U+2C4A", "U+2C4B",
      "U+2C4C", "U+2C4D", "U+2C4E", "U+2C4F", "U+2C50", "U+2C51", "U+2C52", "U+2C53",
      "U+2C54", "U+2C55", "U+2C56", "U+2C57", "U+2C58", "U+2C59", "U+2C5A", "U+2C5B",
      "U+2C5C", "U+2C5D", "U+2C5E", "U+2C5F", "U+2C61", "U+2C65", "U+2C66", "U+2C68",
      "U+2C6A", "U+2C6C", "U+2C73", "U+2C76", "U+2C81", "U+2C83", "U+2C85", "U+2C87",
      "U+2C89", "U+2C8B", "U+2C8D", "U+2C8F", "U+2C91", "U+2C93", "U+2C95", "U+2C97",
      "U+2C99", "U+2C9B", "U+2C9D", "U+2C9F", "U+2CA1", "U+2CA3", "U+2CA5", "U+2CA7",
      "U+2CA9", "U+2CAB", "U+2CAD", "U+2CAF", "U+2CB1", "U+2CB3", "U+2CB5", "U+2CB7",
      "U+2CB9", "U+2CBB", "U+2CBD", "U+2CBF", "U+2CC1", "U+2CC3", "U+2CC5", "U+2CC7",
      "U+2CC9", "U+2CCB", "U+2CCD", "U+2CCF", "U+2CD1", "U+2CD3", "U+2CD5", "U+2CD7",
      "U+2CD9", "U+2CDB", "U+2CDD", "U+2CDF", "U+2CE1", "U+2CE3", "U+2CEC", "U+2CEE",
      "U+2CF3", "U+2D00", "U+2D01", "U+2D02", "U+2D03", "U+2D04", "U+2D05", "U+2D06",
      "U+2D07", "U+2D08", "U+2D09", "U+2D0A", "U+2D0B", "U+2D0C", "U+2D0D", "U+2D0E",
      "U+2D0F", "U+2D10", "U+2D11", "U+2D12", "U+2D13", "U+2D14", "U+2D15", "U+2D16",
      "U+2D17", "U+2D18", "U+2D19", "U+2D1A", "U+2D1B", "U+2D1C", "U+2D1D", "U+2D1E",
      "U+2D1F", "U+2D20", "U+2D21", "U+2D22", "U+2D23", "U+2D24", "U+2D25", "U+2D27",
      "U+2D2D", "U+A641", "U+A643", "U+A645", "U+A647", "U+A649", "U+A64B", "U+A64D",
      "U+A64F", "U+A651", "U+A653", "U+A655", "U+A657", "U+A659", "U+A65B", "U+A65D",
      "U+A65F", "U+A661", "U+A663", "U+A665", "U+A667", "U+A669", "U+A66B", "U+A66D",
      "U+A681", "U+A683", "U+A685", "U+A687", "U+A689", "U+A68B", "U+A68D", "U+A68F",
      "U+A691", "U+A693", "U+A695", "U+A697", "U+A699", "U+A69B", "U+A723", "U+A725",
      "U+A727", "U+A729", "U+A72B", "U+A72D", "U+A72F", "U+A733", "U+A735", "U+A737",
      "U+A739", "U+A73B", "U+A73D", "U+A73F", "U+A741", "U+A743", "U+A745", "U+A747",
      "U+A749", "U+A74B", "U+A74D", "U+A74F", "U+A751", "U+A753", "U+A755", "U+A757",
      "U+A759", "U+A75B", "U+A75D", "U+A75F", "U+A761", "U+A763", "U+A765", "U+A767",
      "U+A769", "U+A76B", "U+A76D", "U+A76F", "U+A77A", "U+A77C", "U+A77F", "U+A781",
      "U+A783", "U+A785", "U+A787", "U+A78C", "U+A791", "U+A793", "U+A794", "U+A797",
      "U+A799", "U+A79B", "U+A79D", "U+A79F", "U+A7A1", "U+A7A3", "U+A7A5", "U+A7A7",
      "U+A7A9", "U+A7B5", "U+A7B7", "U+A7B9", "U+A7BB", "U+A7BD", "U+A7BF", "U+A7C1",
      "U+A7C3", "U+A7C8", "U+A7CA", "U+A7D1", "U+A7D7", "U+A7D9", "U+A7F6", "U+AB53",
      "U+AB70", "U+AB71", "U+AB72", "U+AB73", "U+AB74", "U+AB75", "U+AB76", "U+AB77",
      "U+AB78", "U+AB79", "U+AB7A", "U+AB7B", "U+AB7C", "U+AB7D", "U+AB7E", "U+AB7F",
      "U+AB80", "U+AB81", "U+AB82", "U+AB83", "U+AB84", "U+AB85", "U+AB86", "U+AB87",
      "U+AB88", "U+AB89", "U+AB8A", "U+AB8B", "U+AB8C", "U+AB8D", "U+AB8E", "U+AB8F",
      "U+AB90", "U+AB91", "U+AB92", "U+AB93", "U+AB94", "U+AB95", "U+AB96", "U+AB97",
      "U+AB98", "U+AB99", "U+AB9A", "U+AB9B", "U+AB9C", "U+AB9D", "U+AB9E", "U+AB9F",
      "U+ABA0", "U+ABA1", "U+ABA2", "U+ABA3", "U+ABA4", "U+ABA5", "U+ABA6", "U+ABA7",
      "U+ABA8", "U+ABA9", "U+ABAA", "U+ABAB", "U+ABAC", "U+ABAD", "U+ABAE", "U+ABAF",
      "U+ABB0", "U+ABB1", "U+ABB2", "U+ABB3", "U+ABB4", "U+ABB5", "U+ABB6", "U+ABB7",
      "U+ABB8", "U+ABB9", "U+ABBA", "U+ABBB", "U+ABBC", "U+ABBD", "U+ABBE", "U+ABBF",
      "U+FF41", "U+FF42", "U+FF43", "U+FF44", "U+FF45", "U+FF46", "U+FF47", "U+FF48",
      "U+FF49", "U+FF4A", "U+FF4B", "U+FF4C", "U+FF4D", "U+FF4E", "U+FF4F", "U+FF50",
      "U+FF51", "U+FF52", "U+FF53", "U+FF54", "U+FF55", "U+FF56", "U+FF57", "U+FF58",
      "U+FF59", "U+FF5A", "U+10428", "U+10429", "U+1042A", "U+1042B", "U+1042C", "U+1042D",
      "U+1042E", "U+1042F", "U+10430", "U+10431", "U+10432", "U+10433", "U+10434",
      "U+10435", "U+10436", "U+10437", "U+10438", "U+10439", "U+1043A", "U+1043B",
      "U+1043C", "U+1043D", "U+1043E", "U+1043F", "U+10440", "U+10441", "U+10442",
      "U+10443", "U+10444", "U+10445", "U+10446", "U+10447", "U+10448", "U+10449",
      "U+1044A", "U+1044B", "U+1044C", "U+1044D", "U+1044E", "U+1044F", "U+104D8",
      "U+104D9", "U+104DA", "U+104DB", "U+104DC", "U+104DD", "U+104DE", "U+104DF",
      "U+104E0", "U+104E1", "U+104E2", "U+104E3", "U+104E4", "U+104E5", "U+104E6",
      "U+104E7", "U+104E8", "U+104E9", "U+104EA", "U+104EB", "U+104EC", "U+104ED",
      "U+104EE", "U+104EF", "U+104F0", "U+104F1", "U+104F2", "U+104F3", "U+104F4",
      "U+104F5", "U+104F6", "U+104F7", "U+104F8", "U+104F9", "U+104FA", "U+104FB",
      "U+10597", "U+10598", "U+10599", "U+1059A", "U+1059B", "U+1059C", "U+1059D",
      "U+1059E", "U+1059F", "U+105A0", "U+105A1", "U+105A3", "U+105A4", "U+105A5",
      "U+105A6", "U+105A7", "U+105A8", "U+105A9", "U+105AA", "U+105AB", "U+105AC",
      "U+105AD", "U+105AE", "U+105AF", "U+105B0", "U+105B1", "U+105B3", "U+105B4",
      "U+105B5", "U+105B6", "U+105B7", "U+105B8", "U+105B9", "U+105BB", "U+105BC",
      "U+10CC0", "U+10CC1", "U+10CC2", "U+10CC3", "U+10CC4", "U+10CC5", "U+10CC6",
      "U+10CC7", "U+10CC8", "U+10CC9", "U+10CCA", "U+10CCB", "U+10CCC", "U+10CCD",
      "U+10CCE", "U+10CCF", "U+10CD0", "U+10CD1", "U+10CD2", "U+10CD3", "U+10CD4",
      "U+10CD5", "U+10CD6", "U+10CD7", "U+10CD8", "U+10CD9", "U+10CDA", "U+10CDB",
      "U+10CDC", "U+10CDD", "U+10CDE", "U+10CDF", "U+10CE0", "U+10CE1", "U+10CE2",
      "U+10CE3", "U+10CE4", "U+10CE5", "U+10CE6", "U+10CE7", "U+10CE8", "U+10CE9",
      "U+10CEA", "U+10CEB", "U+10CEC", "U+10CED", "U+10CEE", "U+10CEF", "U+10CF0",
      "U+10CF1", "U+10CF2", "U+118C0", "U+118C1", "U+118C2", "U+118C3", "U+118C4",
      "U+118C5", "U+118C6", "U+118C7", "U+118C8", "U+118C9", "U+118CA", "U+118CB",
      "U+118CC", "U+118CD", "U+118CE", "U+118CF", "U+118D0", "U+118D1", "U+118D2",
      "U+118D3", "U+118D4", "U+118D5", "U+118D6", "U+118D7", "U+118D8", "U+118D9",
      "U+118DA", "U+118DB", "U+118DC", "U+118DD", "U+118DE", "U+118DF", "U+16E60",
      "U+16E61", "U+16E62", "U+16E63", "U+16E64", "U+16E65", "U+16E66", "U+16E67",
      "U+16E68", "U+16E69", "U+16E6A", "U+16E6B", "U+16E6C", "U+16E6D", "U+16E6E",
      "U+16E6F", "U+16E70", "U+16E71", "U+16E72", "U+16E73", "U+16E74", "U+16E75",
      "U+16E76", "U+16E77", "U+16E78", "U+16E79", "U+16E7A", "U+16E7B", "U+16E7C",
      "U+16E7D", "U+16E7E", "U+16E7F", "U+1E922", "U+1E923", "U+1E924", "U+1E925",
      "U+1E926", "U+1E927", "U+1E928", "U+1E929", "U+1E92A", "U+1E92B", "U+1E92C",
      "U+1E92D", "U+1E92E", "U+1E92F", "U+1E930", "U+1E931", "U+1E932", "U+1E933",
      "U+1E934", "U+1E935", "U+1E936", "U+1E937", "U+1E938", "U+1E939", "U+1E93A",
      "U+1E93B", "U+1E93C", "U+1E93D", "U+1E93E", "U+1E93F", "U+1E940", "U+1E941",
      "U+1E942", "U+1E943">>

UpperLetters ==
    <<"A", "B", "C", "D", "E", "F", "G", "H", "I", "J", "K", "L", "M", "N", "O", "P", "Q",
      "R", "S", "T", "U", "V", "W", "X", "Y", "Z", "À", "Á", "Â", "Ã", "Ä", "Å", "Æ", "Ç",
      "È", "É", "Ê", "Ë", "Ì", "Í", "Î", "Ï", "Ð", "Ñ", "Ò", "Ó", "Ô", "Õ", "Ö", "Ø", "Ù",
      "Ú", "Û", "Ü", "Ý", "Þ", "U+0178", "U+0100", "U+0102", "U+0104", "U+0106", "U+0108",
      "U+010A", "U+010C", "U+010E", "U+0110", "U+0112", "U+0114", "U+0116", "U+0118",
      "U+011A", "U+011C", "U+011E", "U+0120", "U+0122", "U+0124", "U+0126", "U+0128",
      "U+012A", "U+012C", "U+012E", "U+0132", "U+0134", "U+0136", "U+0139", "U+013B",
      "U+013D", "U+013F", "U+0141", "U+0143", "U+0145", "U+0147", "U+014A", "U+014C",
      "U+014E", "U+0150", "U+0152", "U+0154", "U+0156", "U+0158", "U+015A", "U+015C",
      "U+015E", "U+0160", "U+0162", "U+0164", "U+0166", "U+0168", "U+016A", "U+016C",
      "U+016E", "U+0170", "U+0172", "U+0174", "U+0176", "U+0179", "U+017B", "U+017D",
      "U+0243", "U+0182", "U+0184", "U+0187", "U+018B", "U+0191", "U+01F6", "U+0198",
      "U+023D", "U+0220", "U+01A0", "U+01A2", "U+01A4", "U+01A7", "U+01AC", "U+01AF",
      "U+01B3", "U+01B5", "U+01B8", "U+01BC", "U+01F7", "U+01C4", "U+01C7", "U+01CA",
      "U+01CD", "U+01CF", "U+01D1", "U+01D3", "U+01D5", "U+01D7", "U+01D9", "U+01DB",
      "U+018E", "U+01DE", "U+01E0", "U+01E2", "U+01E4", "U+01E6", "U+01E8", "U+01EA",
      "U+01EC", "U+01EE", "U+01F1", "U+01F4", "U+01F8", "U+01FA", "U+01FC", "U+01FE",
      "U+0200", "U+0202", "U+0204", "U+0206", "U+0208", "U+020A", "U+020C", "U+020E",
      "U+0210", "U+0212", "U+0214", "U+0216", "U+0218", "U+021A", "U+021C", "U+021E",
      "U+0222", "U+0224", "U+0226", "U+0228", "U+022A", "U+022C", "U+022E", "U+0230",
      "U+0232", "U+023B", "U+2C7E", "U+2C7F", "U+0241", "U+0246", "U+0248", "U+024A",
      "U+024C", "U+024E", "U+2C6F", "U+2C6D", "U+2C70", "U+0181", "U+0186", "U+0189",
      "U+018A", "U+018F", "U+0190", "U+A7AB", "U+0193", "U+A7AC", "U+0194", "U+A78D",
      "U+A7AA", "U+0197", "U+0196", "U+A7AE", "U+2C62", "U+A7AD", "U+019C", "U+2C6E",
      "U+019D", "U+019F", "U+2C64", "U+01A6", "U+A7C5", "U+01A9", "U+A7B1", "U+01AE",
      "U+0244", "U+01B1", "U+01B2", "U+0245", "U+01B7", "U+A7B2", "U+A7B0", "U+0370",
      "U+0372", "U+0376", "U+03FD", "U+03FE", "U+03FF", "U+0386", "U+0388", "U+0389",
      "U+038A", "U+0391", "U+0392", "U+0393", "U+0394", "U+0395", "U+0396", "U+0397",
      "U+0398", "U+0399", "U+039A", "U+039B", "U+039C", "U+039D", "U+039E", "U+039F",
      "U+03A0", "U+03A1", "U+03A3", "U+03A4", "U+03A5", "U+03A6", "U+03A7", "U+03A8",
      "U+03A9", "U+03AA", "U+03AB", "U+038C", "U+038E", "U+038F", "U+03CF", "U+03D8",
      "U+03DA", "U+03DC", "U+03DE", "U+03E0", "U+03E2", "U+03E4", "U+03E6", "U+03E8",
      "U+03EA", "U+03EC", "U+03EE", "U+03F9", "U+037F", "U+03F7", "U+03FA", "U+0410",
      "U+0411", "U+0412", "U+0413", "U+0414", "U+0415", "U+0416", "U+0417", "U+0418",
      "U+0419", "U+041A", "U+041B", "U+041C", "U+041D", "U+041E", "U+041F", "U+0420",
      "U+0421", "U+0422", "U+0423", "U+0424", "U+0425", "U+0426", "U+0427", "U+0428",
      "U+0429", "U+042A", "U+042B", "U+042C", "U+042D", "U+042E", "U+042F", "U+0400",
      "U+0401", "U+0402", "U+0403", "U+0404", "U+0405", "U+0406", "U+0407", "U+0408",
      "U+0409", "U+040A", "U+040B", "U+040C", "U+040D", "U+040E", "U+040F", "U+0460",
      "U+0462", "U+0464", "U+0466", "U+0468", "U+046A", "U+046C", "U+046E", "U+0470",
      "U+0472", "U+0474", "U+0476", "U+0478", "U+047A", "U+047C", "U+047E", "U+0480",
      "U+048A", "U+048C", "U+048E", "U+0490", "U+0492", "U+0494", "U+0496", "U+0498",
      "U+049A", "U+049C", "U+049E", "U+04A0", "U+04A2", "U+04A4", "U+04A6", "U+04A8",
      "U+04AA", "U+04AC", "U+04AE", "U+04B0", "U+04B2", "U+04B4", "U+04B6", "U+04B8",
      "U+04BA", "U+04BC", "U+04BE", "U+04C1", "U+04C3", "U+04C5", "U+04C7", "U+04C9",
      "U+04CB", "U+04CD", "U+04C0", "U+04D0", "U+04D2", "U+04D4", "U+04D6", "U+04D8",
      "U+04DA", "U+04DC", "U+04DE", "U+04E0", "U+04E2", "U+04E4", "U+04E6", "U+04E8",
      "U+04EA", "U+04EC", "U+04EE", "U+04F0", "U+04F2", "U+04F4", "U+04F6", "U+04F8",
      "U+04FA", "U+04FC", "U+04FE", "U+0500", "U+0502", "U+0504", "U+0506", "U+0508",
      "U+050A", "U+050C", "U+050E", "U+0510", "U+0512", "U+0514", "U+0516", "U+0518",
      "U+051A", "U+051C", "U+051E", "U+0520", "U+0522", "U+0524", "U+0526", "U+0528",
      "U+052A", "U+052C", "U+052E", "U+0531", "U+0532", "U+0533", "U+0534", "U+0535",
      "U+0536", "U+0537", "U+0538", "U+0539", "U+053A", "U+053B", "U+053C", "U+053D",
      "U+053E", "U+053F", "U+0540", "U+0541", "U+0542", "U+0543", "U+0544", "U+0545",
      "U+0546", "U+0547", "U+0548", "U+0549", "U+054A", "U+054B", "U+054C", "U+054D",
      "U+054E", "U+054F", "U+0550", "U+0551", "U+0552", "U+0553", "U+0554", "U+0555",
      "U+0556", "U+1C90", "U+1C91", "U+1C92", "U+1C93", "U+1C94", "U+1C95", "U+1C96",
      "U+1C97", "U+1C98", "U+1C99", "U+1C9A", "U+1C9B", "U+1C9C", "U+1C9D", "U+1C9E",
      "U+1C9F", "U+1CA0", "U+1CA1", "U+1CA2", "U+1CA3", "U+1CA4", "U+1CA5", "U+1CA6",
      "U+1CA7", "U+1CA8", "U+1CA9", "U+1CAA", "U+1CAB", "U+1CAC", "U+1CAD", "U+1CAE",
      "U+1CAF", "U+1CB0", "U+1CB1", "U+1CB2", "U+1CB3", "U+1CB4", "U+1CB5", "U+1CB6",
      "U+1CB7", "U+1CB8", "U+1CB9", "U+1CBA", "U+1CBD", "U+1CBE", "U+1CBF", "U+13F0",
      "U+13F1", "U+13F2", "U+13F3", "U+13F4", "U+13F5", "U+A77D", "U+2C63", "U+A7C6",
      "U+1E00", "U+1E02", "U+1E04", "U+1E06", "U+1E08", "U+1E0A", "U+1E0C", "U+1E0E",
      "U+1E10", "U+1E12", "U+1E14", "U+1E16", "U+1E18", "U+1E1A", "U+1E1C", "U+1E1E",
      "U+1E20", "U+1E22", "U+1E24", "U+1E26", "U+1E28", "U+1E2A", "U+1E2C", "U+1E2E",
      "U+1E30", "U+1E32", "U+1E34", "U+1E36", "U+1E38", "U+1E3A", "U+1E3C", "U+1E3E",
      "U+1E40", "U+1E42", "U+1E44", "U+1E46", "U+1E48", "U+1E4A", "U+1E4C", "U+1E4E",
      "U+1E50", "U+1E52", "U+1E54", "U+1E56", "U+1E58", "U+1E5A", "U+1E5C", "U+1E5E",
      "U+1E60", "U+1E62", "U+1E64", "U+1E66", "U+1E68", "U+1E6A", "U+1E6C", "U+1E6E",
      "U+1E70", "U+1E72", "U+1E74", "U+1E76", "U+1E78", "U+1E7A", "U+1E7C", "U+1E7E",
      "U+1E80", "U+1E82", "U+1E84", "U+1E86", "U+1E88", "U+1E8A", "U+1E8C", "U+1E8E",
      "U+1E90", "U+1E92", "U+1E94", "U+1EA0", "U+1EA2", "U+1EA4", "U+1EA6", "U+1EA8",
      "U+1EAA", "U+1EAC", "U+1EAE", "U+1EB0", "U+1EB2", "U+1EB4", "U+1EB6", "U+1EB8",
      "U+1EBA", "U+1EBC", "U+1EBE", "U+1EC0", "U+1EC2", "U+1EC4", "U+1EC6", "U+1EC8",
      "U+1ECA", "U+1ECC", "U+1ECE", "U+1ED0", "U+1ED2", "U+1ED4", "U+1ED6", "U+1ED8",
      "U+1EDA", "U+1EDC", "U+1EDE", "U+1EE0", "U+1EE2", "U+1EE4", "U+1EE6", "U+1EE8",
      "U+1EEA", "U+1EEC", "U+1EEE", "U+1EF0", "U+1EF2", "U+1EF4", "U+1EF6", "U+1EF8",
      "U+1EFA", "U+1EFC", "U+1EFE", "U+1F08", "U+1F09", "U+1F0A", "U+1F0B", "U+1F0C",
      "U+1F0D", "U+1F0E", "U+1F0F", "U+1F18", "U+1F19", "U+1F1A", "U+1F1B", "U+1F1C",
      "U+1F1D", "U+1F28", "U+1F29", "U+1F2A", "U+1F2B", "U+1F2C", "U+1F2D", "U+1F2E",
      "U+1F2F", "U+1F38", "U+1F39", "U+1F3A", "U+1F3B", "U+1F3C", "U+1F3D", "U+1F3E",
      "U+1F3F", "U+1F48", "U+1F49", "U+1F4A", "U+1F4B", "U+1F4C", "U+1F4D", "U+1F59",
      "U+1F5B", "U+1F5D", "U+1F5F", "U+1F68", "U+1F69", "U+1F6A", "U+1F6B", "U+1F6C",
      "U+1F6D", "U+1F6E", "U+1F6F", "U+1FBA", "U+1FBB", "U+1FC8", "U+1FC9", "U+1FCA",
      "U+1FCB", "U+1FDA", "U+1FDB", "U+1FF8", "U+1FF9", "U+1FEA", "U+1FEB", "U+1FFA",
      "U+1FFB", "U+1FB8", "U+1FB9", "U+1FD8", "U+1FD9", "U+1FE8", "U+1FE9", "U+1FEC",
      "U+2132", "U+2160", "U+2161", "U+2162", "U+2163", "U+2164", "U+2165", "U+2166",
      "U+2167", "U+2168", "U+2169", "U+216A", "U+216B", "U+216C", "U+216D", "U+216E",
      "U+216F", "U+2183", "U+24B6", "U+24B7", "U+24B8", "U+24B9", "U+24BA", "U+24BB",
      "U+24BC", "U+24BD", "U+24BE", "U+24BF", "U+24C0", "U+24C1", "U+24C2", "U+24C3",
      "U+24C4", "U+24C5", "U+24C6", "U+24C7", "U+24C8", "U+24C9", "U+24CA", "U+24CB",
      "U+24CC", "U+24CD", "U+24CE", "U+24CF", "U+2C00", "U+2C01", "U+2C02", "U+2C03",
      "U+2C04", "U+2C05", "U+2C06", "U+2C07", "U+2C08", "U+2C09", "U+2C0A", "U+2C0B",
      "U+2C0C", "U+2C0D", "U+2C0E", "U+2C0F", "U+2C10", "U+2C11", "U+2C12", "U+2C13",
      "U+2C14", "U+2C15", "U+2C16", "U+2C17", "U+2C18", "U+2C19", "U+2C1A", "U+2C1B",
      "U+2C1C", "U+2C1D", "U+2C1E", "U+2C1F", "U+2C20", "U+2C21", "U+2C22", "U+2C23",
      "U+2C24", "U+2C25", "U+2C26", "U+2C27", "U+2C28", "U+2C29", "U+2C2A", "U+2C2B",
      "U+2C2C", "U+2C2D", "U+2C2E", "U+2C2F", "U+2C60", "U+023A", "U+023E", "U+2C67",
      "U+2C69", "U+2C6B", "U+2C72", "U+2C75", "U+2C80", "U+2C82", "U+2C84", "U+2C86",
      "U+2C88", "U+2C8A", "U+2C8C", "U+2C8E", "U+2C90", "U+2C92", "U+2C94", "U+2C96",
      "U+2C98", "U+2C9A", "U+2C9C", "U+2C9E", "U+2CA0", "U+2CA2", "U+2CA4", "U+2CA6",
      "U+2CA8", "U+2CAA", "U+2CAC", "U+2CAE", "U+2CB0", "U+2CB2", "U+2CB4", "U+2CB6",
      "U+2CB8", "U+2CBA", "U+2CBC", "U+2CBE", "U+2CC0", "U+2CC2", "U+2CC4", "U+2CC6",
      "U+2CC8", "U+2CCA", "U+2CCC", "U+2CCE", "U+2CD0", "U+2CD2", "U+2CD4", "U+2CD6",
      "U+2CD8", "U+2CDA", "U+2CDC", "U+2CDE", "U+2CE0", "U+2CE2", "U+2CEB", "U+2CED",
      "U+2CF2", "U+10A0", "U+10A1", "U+10A2", "U+10A3", "U+10A4", "U+10A5", "U+10A6",
      "U+10A7", "U+10A8", "U+10A9", "U+10AA", "U+10AB", "U+10AC", "U+10AD", "U+10AE",
      "U+10AF", "U+10B0", "U+10B1", "U+10B2", "U+10B3", "U+10B4", "U+10B5", "U+10B6",
      "U+10B7", "U+10B8", "U+10B9", "U+10BA", "U+10BB", "U+10BC", "U+10BD", "U+10BE",
      "U+10BF", "U+10C0", "U+10C1", "U+10C2", "U+10C3", "U+10C4", "U+10C5", "U+10C7",
      "U+10CD", "U+A640", "U+A642", "U+A644", "U+A646", "U+A648", "U+A64A", "U+A64C",
      "U+A64E", "U+A650", "U+A652", "U+A654", "U+A656", "U+A658", "U+A65A", "U+A65C",
      "U+A65E", "U+A660", "U+A662", "U+A664", "U+A666", "U+A668", "U+A66A", "U+A66C",
      "U+A680", "U+A682", "U+A684", "U+A686", "U+A688", "U+A68A", "U+A68C", "U+A68E",
      "U+A690", "U+A692", "U+A694", "U+A696", "U+A698", "U+A69A", "U+A722", "U+A724",
      "U+A726", "U+A728", "U+A72A", "U+A72C", "U+A72E", "U+A732", "U+A734", "U+A736",
      "U+A738", "U+A73A", "U+A73C", "U+A73E", "U+A740", "U+A742", "U+A744", "U+A746",
      "U+A748", "U+A74A", "U+A74C", "U+A74E", "U+A750", "U+A752", "U+A754", "U+A756",
      "U+A758", "U+A75A", "U+A75C", "U+A75E", "U+A760", "U+A762", "U+A764", "U+A766",
      "U+A768", "U+A76A", "U+A76C", "U+A76E", "U+A779", "U+A77B", "U+A77E", "U+A780",
      "U+A782", "U+A784", "U+A786", "U+A78B", "U+A790", "U+A792", "U+A7C4", "U+A796",
      "U+A798", "U+A79A", "U+A79C", "U+A79E", "U+A7A0", "U+A7A2", "U+A7A4", "U+A7A6",
      "U+A7A8", "U+A7B4", "U+A7B6", "U+A7B8", "U+A7BA", "U+A7BC", "U+A7BE", "U+A7C0",
      "U+A7C2", "U+A7C7", "U+A7C9", "U+A7D0", "U+A7D6", "U+A7D8", "U+A7F5", "U+A7B3",
      "U+13A0", "U+13A1", "U+13A2", "U+13A3", "U+13A4", "U+13A5", "U+13A6", "U+13A7",
      "U+13A8", "U+13A9", "U+13AA", "U+13AB", "U+13AC", "U+13AD", "U+13AE", "U+13AF",
      "U+13B0", "U+13B1", "U+13B2", "U+13B3", "U+13B4", "U+13B5", "U+13B6", "U+13B7",
      "U+13B8", "U+13B9", "U+13BA", "U+13BB", "U+13BC", "U+13BD", "U+13BE", "U+13BF",
      "U+13C0", "U+13C1", "U+13C2", "U+13C3", "U+13C4", "U+13C5", "U+13C6", "U+13C7",
      "U+13C8", "U+13C9", "U+13CA", "U+13CB", "U+13CC", "U+13CD", "U+13CE", "U+13CF",
      "U+13D0", "U+13D1", "U+13D2", "U+13D3", "U+13D4", "U+13D5", "U+13D6", "U+13D7",
      "U+13D8", "U+13D9", "U+13DA", "U+13DB", "U+13DC", "U+13DD", "U+13DE", "U+13DF",
      "U+13E0", "U+13E1", "U+13E2", "U+13E3", "U+13E4", "U+13E5", "U+13E6", "U+13E7",
      "U+13E8", "U+13E9", "U+13EA", "U+13EB", "U+13EC", "U+13ED", "U+13EE", "U+13EF",
      "U+FF21", "U+FF22", "U+FF23", "U+FF24", "U+FF25", "U+FF26", "U+FF27", "U+FF28",
      "U+FF29", "U+FF2A", "U+FF2B", "U+FF2C", "U+FF2D", "U+FF2E", "U+FF2F", "U+FF30",
      "U+FF31", "U+FF32", "U+FF33", "U+FF34", "U+FF35", "U+FF36", "U+FF37", "U+FF38",
      "U+FF39", "U+FF3A", "U+10400", "U+10401", "U+10402", "U+10403", "U+10404", "U+10405",
      "U+10406", "U+10407", "U+10408", "U+10409", "U+1040A", "U+1040B", "U+1040C",
      "U+1040D", "U+1040E", "U+1040F", "U+10410", "U+10411", "U+10412", "U+10413",
      "U+10414", "U+10415", "U+10416", "U+10417", "U+10418", "U+10419", "U+1041A",
      "U+1041B", "U+1041C", "U+1041D", "U+1041E", "U+1041F", "U+10420", "U+10421",
      "U+10422", "U+10423", "U+10424", "U+10425", "U+10426", "U+10427", "U+104B0",
      "U+104B1", "U+104B2", "U+104B3", "U+104B4", "U+104B5", "U+104B6", "U+104B7",
      "U+104B8", "U+104B9", "U+104BA", "U+104BB", "U+104BC", "U+104BD", "U+104BE",
      "U+104BF", "U+104C0", "U+104C1", "U+104C2", "U+104C3", "U+104C4", "U+104C5",
      "U+104C6", "U+104C7", "U+104C8", "U+104C9", "U+104CA", "U+104CB", "U+104CC",
      "U+104CD", "U+104CE", "U+104CF", "U+104D0", "U+104D1", "U+104D2", "U+104D3",
      "U+10570", "U+10571", "U+10572", "U+10573", "U+10574", "U+10575", "U+10576",
      "U+10577", "U+10578", "U+10579", "U+1057A", "U+1057C", "U+1057D", "U+1057E",
      "U+1057F", "U+10580", "U+10581", "U+10582", "U+10583", "U+10584", "U+10585",
      "U+10586", "U+10587", "U+10588", "U+10589", "U+1058A", "U+1058C", "U+1058D",
      "U+1058E", "U+1058F", "U+10590", "U+10591", "U+10592", "U+10594", "U+10595",
      "U+10C80", "U+10C81", "U+10C82", "U+10C83", "U+10C84", "U+10C85", "U+10C86",
      "U+10C87", "U+10C88", "U+10C89", "U+10C8A", "U+10C8B", "U+10C8C", "U+10C8D",
      "U+10C8E", "U+10C8F", "U+10C90", "U+10C91", "U+10C92", "U+10C93", "U+10C94",
      "U+10C95", "U+10C96", "U+10C97", "U+10C98", "U+10C99", "U+10C9A", "U+10C9B",
      "U+10C9C", "U+10C9D", "U+10C9E", "U+10C9F", "U+10CA0", "U+10CA1", "U+10CA2",
      "U+10CA3", "U+10CA4", "U+10CA5", "U+10CA6", "U+10CA7", "U+10CA8", "U+10CA9",
      "U+10CAA", "U+10CAB", "U+10CAC", "U+10CAD", "U+10CAE", "U+10CAF", "U+10CB0",
      "U+10CB1", "U+10CB2", "U+118A0", "U+118A1", "U+118A2", "U+118A3", "U+118A4",
      "U+118A5", "U+118A6", "U+118A7", "U+118A8", "U+118A9", "U+118AA", "U+118AB",
      "U+118AC", "U+118AD", "U+118AE", "U+118AF", "U+118B0", "U+118B1", "U+118B2",
      "U+118B3", "U+118B4", "U+118B5", "U+118B6", "U+118B7", "U+118B8", "U+118B9",
      "U+118BA", "U+118BB", "U+118BC", "U+118BD", "U+118BE", "U+118BF", "U+16E40",
      "U+16E41", "U+16E42", "U+16E43", "U+16E44", "U+16E45", "U+16E46", "U+16E47",
      "U+16E48", "U+16E49", "U+16E4A", "U+16E4B", "U+16E4C", "U+16E4D", "U+16E4E",
      "U+16E4F", "U+16E50", "U+16E51", "U+16E52", "U+16E53", "U+16E54", "U+16E55",
      "U+16E56", "U+16E57", "U+16E58", "U+16E59", "U+16E5A", "U+16E5B", "U+16E5C",
      "U+16E5D", "U+16E5E", "U+16E5F", "U+1E900", "U+1E901", "U+1E902", "U+1E903",
      "U+1E904", "U+1E905", "U+1E906", "U+1E907", "U+1E908", "U+1E909", "U+1E90A",
      "U+1E90B", "U+1E90C", "U+1E90D", "U+1E90E", "U+1E90F", "U+1E910", "U+1E911",
      "U+1E912", "U+1E913", "U+1E914", "U+1E915", "U+1E916", "U+1E917", "U+1E918",
      "U+1E919", "U+1E91A", "U+1E91B", "U+1E91C", "U+1E91D", "U+1E91E", "U+1E91F",
      "U+1E920", "U+1E921">>

\* the other characters str.upper() changes, each followed by its text in
\* upper case
UpperSpecial ==
    <<"µ", <<"U+039C">>,  "ß", <<"S", "S">>,  "U+0131", <<"I">>,  "U+0149", <<"U+02BC", "N">>,
      "U+017F", <<"S">>,  "U+01C5", <<"U+01C4">>,  "U+01C8", <<"U+01C7">>,
      "U+01CB", <<"U+01CA">>,  "U+01F0", <<"J", "U+030C">>,  "U+01F2", <<"U+01F1">>,
      "U+0345", <<"U+0399">>,  "U+0390", <<"U+0399", "U+0308", "U+0301">>,
      "U+03B0", <<"U+03A5", "U+0308", "U+0301">>,  "U+03C2", <<"U+03A3">>,
      "U+03D0", <<"U+0392">>,  "U+03D1", <<"U+0398">>,  "U+03D5", <<"U+03A6">>,
      "U+03D6", <<"U+03A0">>,  "U+03F0", <<"U+039A">>,  "U+03F1", <<"U+03A1">>,
      "U+03F5", <<"U+0395">>,  "U+0587", <<"U+0535", "U+0552">>,  "U+1C80", <<"U+0412">>,
      "U+1C81", <<"U+0414">>,  "U+1C82", <<"U+041E">>,  "U+1C83", <<"U+0421">>,
      "U+1C84", <<"U+0422">>,  "U+1C85", <<"U+0422">>,  "U+1C86", <<"U+042A">>,
      "U+1C87", <<"U+0462">>,  "U+1C88", <<"U+A64A">>,  "U+1E96", <<"H", "U+0331">>,
      "U+1E97", <<"T", "U+0308">>,  "U+1E98", <<"W", "U+030A">>,  "U+1E99", <<"Y", "U+030A">>,
      "U+1E9A", <<"A", "U+02BE">>,  "U+1E9B", <<"U+1E60">>,  "U+1F50", <<"U+03A5", "U+0313">>,
      "U+1F52", <<"U+03A5", "U+0313", "U+0300">>,  "U+1F54", <<"U+03A5", "U+0313", "U+0301">>,
      "U+1F56", <<"U+03A5", "U+0313", "U+0342">>,  "U+1F80", <<"U+1F08", "U+0399">>,
      "U+1F81", <<"U+1F09", "U+0399">>,  "U+1F82", <<"U+1F0A", "U+0399">>,
      "U+1F83", <<"U+1F0B", "U+0399">>,  "U+1F84", <<"U+1F0C", "U+0399">>,
      "U+1F85", <<"U+1F0D", "U+0399">>,  "U+1F86", <<"U+1F0E", "U+0399">>,
      "U+1F87", <<"U+1F0F", "U+0399">>,  "U+1F88", <<"U+1F08", "U+0399">>,
      "U+1F89", <<"U+1F09", "U+0399">>,  "U+1F8A", <<"U+1F0A", "U+0399">>,
      "U+1F8B", <<"U+1F0B", "U+0399">>,  "U+1F8C", <<"U+1F0C", "U+0399">>,
      "U+1F8D", <<"U+1F0D", "U+0399">>,  "U+1F8E", <<"U+1F0E", "U+0399">>,
      "U+1F8F", <<"U+1F0F", "U+0399">>,  "U+1F90", <<"U+1F28", "U+0399">>,
      "U+1F91", <<"U+1F29", "U+0399">>,  "U+1F92", <<"U+1F2A", "U+0399">>,
      "U+1F93", <<"U+1F2B", "U+0399">>,  "U+1F94", <<"U+1F2C", "U+0399">>,
      "U+1F95", <<"U+1F2D", "U+0399">>,  "U+1F96", <<"U+1F2E", "U+0399">>,
      "U+1F97", <<"U+1F2F", "U+0399">>,  "U+1F98", <<"U+1F28", "U+0399">>,
      "U+1F99", <<"U+1F29", "U+0399">>,  "U+1F9A", <<"U+1F2A", "U+0399">>,
      "U+1F9B", <<"U+1F2B", "U+0399">>,  "U+1F9C", <<"U+1F2C", "U+0399">>,
      "U+1F9D", <<"U+1F2D", "U+0399">>,  "U+1F9E", <<"U+1F2E", "U+0399">>,
      "U+1F9F", <<"U+1F2F", "U+0399">>,  "U+1FA0", <<"U+1F68", "U+0399">>,
      "U+1FA1", <<"U+1F69", "U+0399">>,  "U+1FA2", <<"U+1F6A", "U+0399">>,
      "U+1FA3", <<"U+1F6B", "U+0399">>,  "U+1FA4", <<"U+1F6C", "U+0399">>,
      "U+1FA5", <<"U+1F6D", "U+0399">>,  "U+1FA6", <<"U+1F6E", "U+0399">>,
      "U+1FA7", <<"U+1F6F", "U+0399">>,  "U+1FA8", <<"U+1F68", "U+0399">>,
      "U+1FA9", <<"U+1F69", "U+0399">>,  "U+1FAA", <<"U+1F6A", "U+0399">>,
      "U+1FAB", <<"U+1F6B", "U+0399">>,  "U+1FAC", <<"U+1F6C", "U+0399">>,
      "U+1FAD", <<"U+1F6D", "U+0399">>,  "U+1FAE", <<"U+1F6E", "U+0399">>,
      "U+1FAF", <<"U+1F6F", "U+0399">>,  "U+1FB2", <<"U+1FBA", "U+0399">>,
      "U+1FB3", <<"U+0391", "U+0399">>,  "U+1FB4", <<"U+0386", "U+0399">>,
      "U+1FB6", <<"U+0391", "U+0342">>,  "U+1FB7", <<"U+0391", "U+0342", "U+0399">>,
      "U+1FBC", <<"U+0391", "U+0399">>,  "U+1FBE", <<"U+0399">>,
      "U+1FC2", <<"U+1FCA", "U+0399">>,  "U+1FC3", <<"U+0397", "U+0399">>,
      "U+1FC4", <<"U+0389", "U+0399">>,  "U+1FC6", <<"U+0397", "U+0342">>,
      "U+1FC7", <<"U+0397", "U+0342", "U+0399">>,  "U+1FCC", <<"U+0397", "U+0399">>,
      "U+1FD2", <<"U+0399", "U+0308", "U+0300">>,  "U+1FD3", <<"U+0399", "U+0308", "U+0301">>,
      "U+1FD6", <<"U+0399", "U+0342">>,  "U+1FD7", <<"U+0399", "U+0308", "U+0342">>,
      "U+1FE2", <<"U+03A5", "U+0308", "U+0300">>,  "U+1FE3", <<"U+03A5", "U+0308", "U+0301">>,
      "U+1FE4", <<"U+03A1", "U+0313">>,  "U+1FE6", <<"U+03A5", "U+0342">>,
      "U+1FE7", <<"U+03A5", "U+0308", "U+0342">>,  "U+1FF2", <<"U+1FFA", "U+0399">>,
      "U+1FF3", <<"U+03A9", "U+0399">>,  "U+1FF4", <<"U+038F", "U+0399">>,
      "U+1FF6", <<"U+03A9", "U+0342">>,  "U+1FF7", <<"U+03A9", "U+0342", "U+0399">>,
      "U+1FFC", <<"U+03A9", "U+0399">>,  "U+FB00", <<"F", "F">>,  "U+FB01", <<"F", "I">>,
      "U+FB02", <<"F", "L">>,  "U+FB03", <<"F", "F", "I">>,  "U+FB04", <<"F", "F", "L">>,
      "U+FB05", <<"S", "T">>,  "U+FB06", <<"S", "T">>,  "U+FB13", <<"U+0544", "U+0546">>,
      "U+FB14", <<"U+0544", "U+0535">>,  "U+FB15", <<"U+0544", "U+053B">>,
      "U+FB16", <<"U+054E", "U+0546">>,  "U+FB17", <<"U+0544", "U+053D">>>>

\* the other characters str.lower() changes, each followed by its text in
\* lower case
LowerSpecial ==
    <<"U+0130", <<"i", "U+0307">>,  "U+01C5", <<"U+01C6">>,  "U+01C8", <<"U+01C9">>,
      "U+01CB", <<"U+01CC">>,  "U+01F2", <<"U+01F3">>,  "U+03F4", <<"U+03B8">>,
      "U+1E9E", <<"ß">>,  "U+1F88", <<"U+1F80">>,  "U+1F89", <<"U+1F81">>,
      "U+1F8A", <<"U+1F82">>,  "U+1F8B", <<"U+1F83">>,  "U+1F8C", <<"U+1F84">>,
      "U+1F8D", <<"U+1F85">>,  "U+1F8E", <<"U+1F86">>,  "U+1F8F", <<"U+1F87">>,
      "U+1F98", <<"U+1F90">>,  "U+1F99", <<"U+1F91">>,  "U+1F9A", <<"U+1F92">>,
      "U+1F9B", <<"U+1F93">>,  "U+1F9C", <<"U+1F94">>,  "U+1F9D", <<"U+1F95">>,
      "U+1F9E", <<"U+1F96">>,  "U+1F9F", <<"U+1F97">>,  "U+1FA8", <<"U+1FA0">>,
      "U+1FA9", <<"U+1FA1">>,  "U+1FAA", <<"U+1FA2">>,  "U+1FAB", <<"U+1FA3">>,
      "U+1FAC", <<"U+1FA4">>,  "U+1FAD", <<"U+1FA5">>,  "U+1FAE", <<"U+1FA6">>,
      "U+1FAF", <<"U+1FA7">>,  "U+1FBC", <<"U+1FB3">>,  "U+1FCC", <<"U+1FC3">>,
      "U+1FFC", <<"U+1FF3">>,  "U+2126", <<"U+03C9">>,  "U+212A", <<"k">>,  "U+212B", <<"å">>>>

\* the cased characters (lower case, upper case or title case), as ranges of
\* code points, and those of them that are written as themselves
CasedRanges ==
    <<\H0041, \H005A,  \H0061, \H007A,  \H00AA, \H00AA,  \H00B5, \H00B5,
      \H00BA, \H00BA,  \H00C0, \H00D6,  \H00D8, \H00F6,  \H00F8, \H01BA,
      \H01BC, \H01BF,  \H01C4, \H0293,  \H0295, \H02B8,  \H02C0, \H02C1,
      \H02E0, \H02E4,  \H0345, \H0345,  \H0370, \H0373,  \H0376, \H0377,
      \H037A, \H037D,  \H037F, \H037F,  \H0386, \H0386,  \H0388, \H038A,
      \H038C, \H038C,  \H038E, \H03A1,  \H03A3, \H03F5,  \H03F7, \H0481,
      \H048A, \H052F,  \H0531, \H0556,  \H0560, \H0588,  \H10A0, \H10C5,
      \H10C7, \H10C7,  \H10CD, \H10CD,  \H10D0, \H10FA,  \H10FD, \H10FF,
      \H13A0, \H13F5,  \H13F8, \H13FD,  \H1C80, \H1C88,  \H1C90, \H1CBA,
      \H1CBD, \H1CBF,  \H1D00, \H1DBF,  \H1E00, \H1F15,  \H1F18, \H1F1D,
      \H1F20, \H1F45,  \H1F48, \H1F4D,  \H1F50, \H1F57,  \H1F59, \H1F59,
      \H1F5B, \H1F5B,  \H1F5D, \H1F5D,  \H1F5F, \H1F7D,  \H1F80, \H1FB4,
      \H1FB6, \H1FBC,  \H1FBE, \H1FBE,  \H1FC2, \H1FC4,  \H1FC6, \H1FCC,
      \H1FD0, \H1FD3,  \H1FD6, \H1FDB,  \H1FE0, \H1FEC,  \H1FF2, \H1FF4,
      \H1FF6, \H1FFC,  \H2071, \H2071,  \H207F, \H207F,  \H2090, \H209C,
      \H2102, \H2102,  \H2107, \H2107,  \H210A, \H2113,  \H2115, \H2115,
      \H2119, \H211D,  \H2124, \H2124,  \H2126, \H2126,  \H2128, \H2128,
      \H212A, \H212D,  \H212F, \H2134,  \H2139, \H2139,  \H213C, \H213F,
      \H2145, \H2149,  \H214E, \H214E,  \H2160, \H217F,  \H2183, \H2184,
      \H24B6, \H24E9,  \H2C00, \H2CE4,  \H2CEB, \H2CEE,  \H2CF2, \H2CF3,
      \H2D00, \H2D25,  \H2D27, \H2D27,  \H2D2D, \H2D2D,  \HA640, \HA66D,
      \HA680, \HA69D,  \HA722, \HA787,  \HA78B, \HA78E,  \HA790, \HA7CA,
      \HA7D0, \HA7D1,  \HA7D3, \HA7D3,  \HA7D5, \HA7D9,  \HA7F5, \HA7F6,
      \HA7F8, \HA7FA,  \HAB30, \HAB5A,  \HAB5C, \HAB68,  \HAB70, \HABBF,
      \HFB00, \HFB06,  \HFB13, \HFB17,  \HFF21, \HFF3A,  \HFF41, \HFF5A,
      \H10400, \H1044F,  \H104B0, \H104D3,  \H104D8, \H104FB,  \H10570, \H1057A,
      \H1057C, \H1058A,  \H1058C, \H10592,  \H10594, \H10595,  \H10597, \H105A1,
      \H105A3, \H105B1,  \H105B3, \H105B9,  \H105BB, \H105BC,  \H10780, \H10780,
      \H10783, \H10785,  \H10787, \H107B0,  \H107B2, \H107BA,  \H10C80, \H10CB2,
      \H10CC0, \H10CF2,  \H118A0, \H118DF,  \H16E40, \H16E7F,  \H1D400, \H1D454,
      \H1D456, \H1D49C,  \H1D49E, \H1D49F,  \H1D4A2, \H1D4A2,  \H1D4A5, \H1D4A6,
      \H1D4A9, \H1D4AC,  \H1D4AE, \H1D4B9,  \H1D4BB, \H1D4BB,  \H1D4BD, \H1D4C3,
      \H1D4C5, \H1D505,  \H1D507, \H1D50A,  \H1D50D, \H1D514,  \H1D516, \H1D51C,
      \H1D51E, \H1D539,  \H1D53B, \H1D53E,  \H1D540, \H1D544,  \H1D546, \H1D546,
      \H1D54A, \H1D550,  \H1D552, \H1D6A5,  \H1D6A8, \H1D6C0,  \H1D6C2, \H1D6DA,
      \H1D6DC, \H1D6FA,  \H1D6FC, \H1D714,  \H1D716, \H1D734,  \H1D736, \H1D74E,
      \H1D750, \H1D76E,  \H1D770, \H1D788,  \H1D78A, \H1D7A8,  \H1D7AA, \H1D7C2,
      \H1D7C4, \H1D7CB,  \H1DF00, \H1DF09,  \H1DF0B, \H1DF1E,  \H1E900, \H1E943,
      \H1F130, \H1F149,  \H1F150, \H1F169,  \H1F170, \H1F189>>

CasedLatin ==
    {"A", "B", "C", "D", "E", "F", "G", "H", "I", "J", "K", "L", "M", "N", "O", "P", "Q",
     "R", "S", "T", "U", "V", "W", "X", "Y", "Z", "a", "b", "c", "d", "e", "f", "g", "h",
     "i", "j", "k", "l", "m", "n", "o", "p", "q", "r", "s", "t", "u", "v", "w", "x", "y",
     "z", "ª", "µ", "º", "À", "Á", "Â", "Ã", "Ä", "Å", "Æ", "Ç", "È", "É", "Ê", "Ë", "Ì",
     "Í", "Î", "Ï", "Ð", "Ñ", "Ò", "Ó", "Ô", "Õ", "Ö", "Ø", "Ù", "Ú", "Û", "Ü", "Ý", "Þ",
     "ß", "à", "á", "â", "ã", "ä", "å", "æ", "ç", "è", "é", "ê", "ë", "ì", "í", "î", "ï",
     "ð", "ñ", "ò", "ó", "ô", "õ", "ö", "ø", "ù", "ú", "û", "ü", "ý", "þ", "ÿ"}

\* the characters a case mapping looks through (marks, modifiers, some
\* punctuation): ranges of code points, and those written as themselves
CaseIgnorableRanges ==
    <<\H0027, \H0027,  \H002E, \H002E,  \H003A, \H003A,  \H005E, \H005E,
      \H0060, \H0060,  \H00A8, \H00A8,  \H00AD, \H00AD,  \H00AF, \H00AF,
      \H00B4, \H00B4,  \H00B7, \H00B8,  \H02B0, \H036F,  \H0374, \H0375,
      \H037A, \H037A,  \H0384, \H0385,  \H0387, \H0387,  \H0483, \H0489,
      \H0559, \H0559,  \H055F, \H055F,  \H0591, \H05BD,  \H05BF, \H05BF,
      \H05C1, \H05C2,  \H05C4, \H05C5,  \H05C7, \H05C7,  \H05F4, \H05F4,
      \H0600, \H0605,  \H0610, \H061A,  \H061C, \H061C,  \H0640, \H0640,
      \H064B, \H065F,  \H0670, \H0670,  \H06D6, \H06DD,  \H06DF, \H06E8,
      \H06EA, \H06ED,  \H070F, \H070F,  \H0711, \H0711,  \H0730, \H074A,
      \H07A6, \H07B0,  \H07EB, \H07F5,  \H07FA, \H07FA,  \H07FD, \H07FD,
      \H0816, \H082D,  \H0859, \H085B,  \H0888, \H0888,  \H0890, \H0891,
      \H0898, \H089F,  \H08C9, \H0902,  \H093A, \H093A,  \H093C, \H093C,
      \H0941, \H0948,  \H094D, \H094D,  \H0951, \H0957,  \H0962, \H0963,
      \H0971, \H0971,  \H0981, \H0981,  \H09BC, \H09BC,  \H09C1, \H09C4,
      \H09CD, \H09CD,  \H09E2, \H09E3,  \H09FE, \H09FE,  \H0A01, \H0A02,
      \H0A3C, \H0A3C,  \H0A41, \H0A42,  \H0A47, \H0A48,  \H0A4B, \H0A4D,
      \H0A51, \H0A51,  \H0A70, \H0A71,  \H0A75, \H0A75,  \H0A81, \H0A82,
      \H0ABC, \H0ABC,  \H0AC1, \H0AC5,  \H0AC7, \H0AC8,  \H0ACD, \H0ACD,
      \H0AE2, \H0AE3,  \H0AFA, \H0AFF,  \H0B01, \H0B01,  \H0B3C, \H0B3C,
      \H0B3F, \H0B3F,  \H0B41, \H0B44,  \H0B4D, \H0B4D,  \H0B55, \H0B56,
      \H0B62, \H0B63,  \H0B82, \H0B82,  \H0BC0, \H0BC0,  \H0BCD, \H0BCD,
      \H0C00, \H0C00,  \H0C04, \H0C04,  \H0C3C, \H0C3C,  \H0C3E, \H0C40,
      \H0C46, \H0C48,  \H0C4A, \H0C4D,  \H0C55, \H0C56,  \H0C62, \H0C63,
      \H0C81, \H0C81,  \H0CBC, \H0CBC,  \H0CBF, \H0CBF,  \H0CC6, \H0CC6,
      \H0CCC, \H0CCD,  \H0CE2, \H0CE3,  \H0D00, \H0D01,  \H0D3B, \H0D3C,
      \H0D41, \H0D44,  \H0D4D, \H0D4D,  \H0D62, \H0D63,  \H0D81, \H0D81,
      \H0DCA, \H0DCA,  \H0DD2, \H0DD4,  \H0DD6, \H0DD6,  \H0E31, \H0E31,
      \H0E34, \H0E3A,  \H0E46, \H0E4E,  \H0EB1, \H0EB1,  \H0EB4, \H0EBC,
      \H0EC6, \H0EC6,  \H0EC8, \H0ECD,  \H0F18, \H0F19,  \H0F35, \H0F35,
      \H0F37, \H0F37,  \H0F39, \H0F39,  \H0F71, \H0F7E,  \H0F80, \H0F84,
      \H0F86, \H0F87,  \H0F8D, \H0F97,  \H0F99, \H0FBC,  \H0FC6, \H0FC6,
      \H102D, \H1030,  \H1032, \H1037,  \H1039, \H103A,  \H103D, \H103E,
      \H1058, \H1059,  \H105E, \H1060,  \H1071, \H1074,  \H1082, \H1082,
      \H1085, \H1086,  \H108D, \H108D,  \H109D, \H109D,  \H10FC, \H10FC,
      \H135D, \H135F,  \H1712, \H1714,  \H1732, \H1733,  \H1752, \H1753,
      \H1772, \H1773,  \H17B4, \H17B5,  \H17B7, \H17BD,  \H17C6, \H17C6,
      \H17C9, \H17D3,  \H17D7, \H17D7,  \H17DD, \H17DD,  \H180B, \H180F,
      \H1843, \H1843,  \H1885, \H1886,  \H18A9, \H18A9,  \H1920, \H1922,
      \H1927, \H1928,  \H1932, \H1932,  \H1939, \H193B,  \H1A17, \H1A18,
      \H1A1B, \H1A1B,  \H1A56, \H1A56,  \H1A58, \H1A5E,  \H1A60, \H1A60,
      \H1A62, \H1A62,  \H1A65, \H1A6C,  \H1A73, \H1A7C,  \H1A7F, \H1A7F,
      \H1AA7, \H1AA7,  \H1AB0, \H1ACE,  \H1B00, \H1B03,  \H1B34, \H1B34,
      \H1B36, \H1B3A,  \H1B3C, \H1B3C,  \H1B42, \H1B42,  \H1B6B, \H1B73,
      \H1B80, \H1B81,  \H1BA2, \H1BA5,  \H1BA8, \H1BA9,  \H1BAB, \H1BAD,
      \H1BE6, \H1BE6,  \H1BE8, \H1BE9,  \H1BED, \H1BED,  \H1BEF, \H1BF1,
      \H1C2C, \H1C33,  \H1C36, \H1C37,  \H1C78, \H1C7D,  \H1CD0, \H1CD2,
      \H1CD4, \H1CE0,  \H1CE2, \H1CE8,  \H1CED, \H1CED,  \H1CF4, \H1CF4,
      \H1CF8, \H1CF9,  \H1D2C, \H1D6A,  \H1D78, \H1D78,  \H1D9B, \H1DFF,
      \H1FBD, \H1FBD,  \H1FBF, \H1FC1,  \H1FCD, \H1FCF,  \H1FDD, \H1FDF,
      \H1FED, \H1FEF,  \H1FFD, \H1FFE,  \H200B, \H200F,  \H2018, \H2019,
      \H2024, \H2024,  \H2027, \H2027,  \H202A, \H202E,  \H2060, \H2064,
      \H2066, \H206F,  \H2071, \H2071,  \H207F, \H207F,  \H2090, \H209C,
      \H20D0, \H20F0,  \H2C7C, \H2C7D,  \H2CEF, \H2CF1,  \H2D6F, \H2D6F,
      \H2D7F, \H2D7F,  \H2DE0, \H2DFF,  \H2E2F, \H2E2F,  \H3005, \H3005,
      \H302A, \H302D,  \H3031, \H3035,  \H303B, \H303B,  \H3099, \H309E,
      \H30FC, \H30FE,  \HA015, \HA015,  \HA4F8, \HA4FD,  \HA60C, \HA60C,
      \HA66F, \HA672,  \HA674, \HA67D,  \HA67F, \HA67F,  \HA69C, \HA69F,
      \HA6F0, \HA6F1,  \HA700, \HA721,  \HA770, \HA770,  \HA788, \HA78A,
      \HA7F2, \HA7F4,  \HA7F8, \HA7F9,  \HA802, \HA802,  \HA806, \HA806,
      \HA80B, \HA80B,  \HA825, \HA826,  \HA82C, \HA82C,  \HA8C4, \HA8C5,
      \HA8E0, \HA8F1,  \HA8FF, \HA8FF,  \HA926, \HA92D,  \HA947, \HA951,
      \HA980, \HA982,  \HA9B3, \HA9B3,  \HA9B6, \HA9B9,  \HA9BC, \HA9BD,
      \HA9CF, \HA9CF,  \HA9E5, \HA9E6,  \HAA29, \HAA2E,  \HAA31, \HAA32,
      \HAA35, \HAA36,  \HAA43, \HAA43,  \HAA4C, \HAA4C,  \HAA70, \HAA70,
      \HAA7C, \HAA7C,  \HAAB0, \HAAB0,  \HAAB2, \HAAB4,  \HAAB7, \HAAB8,
      \HAABE, \HAABF,  \HAAC1, \HAAC1,  \HAADD, \HAADD,  \HAAEC, \HAAED,
      \HAAF3, \HAAF4,  \HAAF6, \HAAF6,  \HAB5B, \HAB5F,  \HAB69, \HAB6B,
      \HABE5, \HABE5,  \HABE8, \HABE8,  \HABED, \HABED,  \HFB1E, \HFB1E,
      \HFBB2, \HFBC2,  \HFE00, \HFE0F,  \HFE13, \HFE13,  \HFE20, \HFE2F,
      \HFE52, \HFE52,  \HFE55, \HFE55,  \HFEFF, \HFEFF,  \HFF07, \HFF07,
      \HFF0E, \HFF0E,  \HFF1A, \HFF1A,  \HFF3E, \HFF3E,  \HFF40, \HFF40,
      \HFF70, \HFF70,  \HFF9E, \HFF9F,  \HFFE3, \HFFE3,  \HFFF9, \HFFFB,
      \H101FD, \H101FD,  \H102E0, \H102E0,  \H10376, \H1037A,  \H10780, \H10785,
      \H10787, \H107B0,  \H107B2, \H107BA,  \H10A01, \H10A03,  \H10A05, \H10A06,
      \H10A0C, \H10A0F,  \H10A38, \H10A3A,  \H10A3F, \H10A3F,  \H10AE5, \H10AE6,
      \H10D24, \H10D27,  \H10EAB, \H10EAC,  \H10F46, \H10F50,  \H10F82, \H10F85,
      \H11001, \H11001,  \H11038, \H11046,  \H11070, \H11070,  \H11073, \H11074,
      \H1107F, \H11081,  \H110B3, \H110B6,  \H110B9, \H110BA,  \H110BD, \H110BD,
      \H110C2, \H110C2,  \H110CD, \H110CD,  \H11100, \H11102,  \H11127, \H1112B,
      \H1112D, \H11134,  \H11173, \H11173,  \H11180, \H11181,  \H111B6, \H111BE,
      \H111C9, \H111CC,  \H111CF, \H111CF,  \H1122F, \H11231,  \H11234, \H11234,
      \H11236, \H11237,  \H1123E, \H1123E,  \H112DF, \H112DF,  \H112E3, \H112EA,
      \H11300, \H11301,  \H1133B, \H1133C,  \H11340, \H11340,  \H11366, \H1136C,
      \H11370, \H11374,  \H11438, \H1143F,  \H11442, \H11444,  \H11446, \H11446,
      \H1145E, \H1145E,  \H114B3, \H114B8,  \H114BA, \H114BA,  \H114BF, \H114C0,
      \H114C2, \H114C3,  \H115B2, \H115B5,  \H115BC, \H115BD,  \H115BF, \H115C0,
      \H115DC, \H115DD,  \H11633, \H1163A,  \H1163D, \H1163D,  \H1163F, \H11640,
      \H116AB, \H116AB,  \H116AD, \H116AD,  \H116B0, \H116B5,  \H116B7, \H116B7,
      \H1171D, \H1171F,  \H11722, \H11725,  \H11727, \H1172B,  \H1182F, \H11837,
      \H11839, \H1183A,  \H1193B, \H1193C,  \H1193E, \H1193E,  \H11943, \H11943,
      \H119D4, \H119D7,  \H119DA, \H119DB,  \H119E0, \H119E0,  \H11A01, \H11A0A,
      \H11A33, \H11A38,  \H11A3B, \H11A3E,  \H11A47, \H11A47,  \H11A51, \H11A56,
      \H11A59, \H11A5B,  \H11A8A, \H11A96,  \H11A98, \H11A99,  \H11C30, \H11C36,
      \H11C38, \H11C3D,  \H11C3F, \H11C3F,  \H11C92, \H11CA7,  \H11CAA, \H11CB0,
      \H11CB2, \H11CB3,  \H11CB5, \H11CB6,  \H11D31, \H11D36,  \H11D3A, \H11D3A,
      \H11D3C, \H11D3D,  \H11D3F, \H11D45,  \H11D47, \H11D47,  \H11D90, \H11D91,
      \H11D95, \H11D95,  \H11D97, \H11D97,  \H11EF3, \H11EF4,  \H13430, \H13438,
      \H16AF0, \H16AF4,  \H16B30, \H16B36,  \H16B40, \H16B43,  \H16F4F, \H16F4F,
      \H16F8F, \H16F9F,  \H16FE0, \H16FE1,  \H16FE3, \H16FE4,  \H1AFF0, \H1AFF3,
      \H1AFF5, \H1AFFB,  \H1AFFD, \H1AFFE,  \H1BC9D, \H1BC9E,  \H1BCA0, \H1BCA3,
      \H1CF00, \H1CF2D,  \H1CF30, \H1CF46,  \H1D167, \H1D169,  \H1D173, \H1D182,
      \H1D185, \H1D18B,  \H1D1AA, \H1D1AD,  \H1D242, \H1D244,  \H1DA00, \H1DA36,
      \H1DA3B, \H1DA6C,  \H1DA75, \H1DA75,  \H1DA84, \H1DA84,  \H1DA9B, \H1DA9F,
      \H1DAA1, \H1DAAF,  \H1E000, \H1E006,  \H1E008, \H1E018,  \H1E01B, \H1E021,
      \H1E023, \H1E024,  \H1E026, \H1E02A,  \H1E130, \H1E13D,  \H1E2AE, \H1E2AE,
      \H1E2EC, \H1E2EF,  \H1E8D0, \H1E8D6,  \H1E944, \H1E94B,  \H1F3FB, \H1F3FF,
      \HE0001, \HE0001,  \HE0020, \HE007F,  \HE0100, \HE01EF>>

CaseIgnorableLatin ==
    {"'", ".", ":", "^", "¨", "¯", "´", "·", "¸"}

\* the characters str.strip() removes: those c with c.isspace()
Whitespace ==
    {"\t", "\n", "U+000B", "\f", "\r", "U+001C", "U+001D", "U+001E",
     "U+001F", " ", "U+0085", "U+00A0", "U+1680", "U+2000", "U+2001", "U+2002",
     "U+2003", "U+2004", "U+2005", "U+2006", "U+2007", "U+2008", "U+2009", "U+200A",
     "U+2028", "U+2029", "U+202F", "U+205F", "U+3000"}

HexDigits ==
    <<"0", "1", "2", "3", "4", "5", "6", "7", "8", "9", "A", "B", "C", "D", "E", "F">>

RECURSIVE HexNumber(_, _)
HexNumber(digits, n) ==
    IF digits = "" THEN n
    ELSE HexNumber(Tail(digits),
                   16 * n + (CHOOSE i \in 1..16 : HexDigits[i] = Head(digits)) - 1)

\* the code point of a character that is written by its code point
CodePoint(c) == HexNumber(SubSeq(c, 3, Len(c)), 0)

\* n lies in one of the ranges, which are written one after the other, each
\* as its first and its last code point
InRanges(n, ranges) ==
    \E i \in 1..(Len(ranges) \div 2) : ranges[2 * i - 1] <= n /\ n <= ranges[2 * i]

IsCased(c) ==
    IF Len(c) > 2 THEN InRanges(CodePoint(c), CasedRanges) ELSE c \in CasedLatin

IsCaseIgnorable(c) ==
    IF Len(c) > 2 THEN InRanges(CodePoint(c), CaseIgnorableRanges)
    ELSE c \in CaseIgnorableLatin

\* the text in upper case of every character str.upper() changes
UpperOf ==
    [c \in {LowerLetters[i] : i \in DOMAIN LowerLetters}
            \cup {UpperSpecial[2 * i - 1] : i \in 1..(Len(UpperSpecial) \div 2)} |->
        IF \E i \in DOMAIN LowerLetters : LowerLetters[i] = c
        THEN <<UpperLetters[CHOOSE i \in DOMAIN LowerLetters : LowerLetters[i] = c]>>
        ELSE UpperSpecial[2 * (CHOOSE i \in 1..(Len(UpperSpecial) \div 2) :
                                  UpperSpecial[2 * i - 1] = c)]]

\* the text in lower case of every character str.lower() changes, each taken
\* alone
LowerOf ==
    [c \in {UpperLetters[i] : i \in DOMAIN UpperLetters}
            \cup {LowerSpecial[2 * i - 1] : i \in 1..(Len(LowerSpecial) \div 2)} |->
        IF \E i \in DOMAIN UpperLetters : UpperLetters[i] = c
        THEN <<LowerLetters[CHOOSE i \in DOMAIN UpperLetters : UpperLetters[i] = c]>>
        ELSE LowerSpecial[2 * (CHOOSE i \in 1..(Len(LowerSpecial) \div 2) :
                                  LowerSpecial[2 * i - 1] = c)]]

\* str.upper() on one character: a text, of two characters for the sharp s
UpperChar(c) == IF c \in DOMAIN UpperOf THEN UpperOf[c] ELSE <<c>>

\* str.lower() on one character: a text, of two characters for the dotted
\* capital I
LowerChar(c) == IF c \in DOMAIN LowerOf THEN LowerOf[c] ELSE <<c>>

RECURSIVE StrUpper(_)
\* pandas .str.upper()
StrUpper(s) == IF s = <<>> THEN <<>> ELSE UpperChar(Head(s)) \o StrUpper(Tail(s))

RECURSIVE CasedBefore(_, _)
\* the character before position i, the ignorable ones skipped, is cased
CasedBefore(s, i) ==
    IF i = 1 THEN FALSE
    ELSE IF IsCaseIgnorable(s[i - 1]) THEN CasedBefore(s, i - 1)
    ELSE IsCased(s[i - 1])

RECURSIVE CasedAfter(_, _)
CasedAfter(s, i) ==
    IF i = Len(s) THEN FALSE
    ELSE IF IsCaseIgnorable(s[i + 1]) THEN CasedAfter(s, i + 1)
    ELSE IsCased(s[i + 1])

\* the capital sigma at position i ends a word: it lowers to the final sigma
FinalSigma(s, i) == CasedBefore(s, i) /\ ~CasedAfter(s, i)

RECURSIVE LowerFrom(_, _)
LowerFrom(s, i) ==
    IF i > Len(s) THEN <<>>
    ELSE (IF s[i] = "U+03A3"
          THEN (IF FinalSigma(s, i) THEN <<"U+03C2">> ELSE <<"U+03C3">>)
          ELSE LowerChar(s[i])) \o LowerFrom(s, i + 1)

\* pandas .str.lower()
StrLower(s) == LowerFrom(s, 1)

RECURSIVE LStrip(_)
LStrip(s) ==
    IF s # <<>> /\ Head(s) \in Whitespace THEN LStrip(Tail(s)) ELSE s

RECURSIVE RStrip(_)
RStrip(s) ==
    IF s # <<>> /\ s[Len(s)] \in Whitespace
    THEN RStrip(SubSeq(s, 1, Len(s) - 1))
    ELSE s

\* str.strip()
StrStrip(s) == RStrip(LStrip(s))

RECURSIVE Label(_)
\* a column label: the text of a header, as the string the frame is indexed by
Label(s) == IF s = <<>> THEN "" ELSE Head(s) \o Label(Tail(s))

\* the text of Python's str(True), str(False), str(float("nan")), str(None)
TrueText == <<"T", "r", "u", "e">>
FalseText == <<"F", "a", "l", "s", "e">>
NanText == <<"n", "a", "n">>
NoneText == <<"N", "o", "n", "e">>

(* ----------------------------- cells ----------------------------------- *)

Text(s) == [k |-> "str", v |-> s]
Flag(b) == [k |-> "bool", v |-> b]
NaN == [k |-> "nan", v |-> <<>>]
\* Python's None, as parse_date returns it
None == [k |-> "none", v |-> <<>>]

\* str(value), and pandas .astype(str) on one cell
PyStr(cell) ==
    CASE cell.k = "str" -> cell.v
      [] cell.k = "bool" -> (IF cell.v THEN TrueText ELSE FalseText)
      [] cell.k = "none" -> NoneText
      [] OTHER -> NanText

\* the elements of a list
ListSet(list) == {list[i] : i \in DOMAIN list}

COUNTRY_MAP ==
    <<[code |-> <<"A", "T">>, name |-> <<"A", "u", "s", "t", "r", "i", "a">>],
      [code |-> <<"B", "E">>, name |-> <<"B", "e", "l", "g", "i", "u", "m">>],
      [code |-> <<"B", "G">>, name |-> <<"B", "u", "l", "g", "a", "r", "i", "a">>],
      [code |-> <<"H", "R">>, name |-> <<"C", "r", "o", "a", "t", "i", "a">>],
      [code |-> <<"C", "Y">>, name |-> <<"C", "y", "p", "r", "u", "s">>],
      [code |-> <<"C", "Z">>, name |-> <<"C", "z", "e", "c", "h", " ", "R", "e", "p", "u", "b", "l", "i", "c">>],
      [code |-> <<"D", "K">>, name |-> <<"D", "e", "n", "m", "a", "r", "k">>],
      [code |-> <<"E", "E">>, name |-> <<"E", "s", "t", "o", "n", "i", "a">>],
      [code |-> <<"F", "I">>, name |-> <<"F", "i", "n", "l", "a", "n", "d">>],
      [code |-> <<"F", "R">>, name |-> <<"F", "r", "a", "n", "c", "e">>],
      [code |-> <<"D", "E">>, name |-> <<"G", "e", "r", "m", "a", "n", "y">>],
      [code |-> <<"G", "R">>, name |-> <<"G", "r", "e", "e", "c", "e">>],
      [code |-> <<"H", "U">>, name |-> <<"H", "u", "n", "g", "a", "r", "y">>],
      [code |-> <<"I", "E">>, name |-> <<"I", "r", "e", "l", "a", "n", "d">>],
      [code |-> <<"I", "T">>, name |-> <<"I", "t", "a", "l", "y">>],
      [code |-> <<"L", "V">>, name |-> <<"L", "a", "t", "v", "i", "a">>],
      [code |-> <<"L", "T">>, name |-> <<"L", "i", "t", "h", "u", "a", "n", "i", "a">>],
      [code |-> <<"L", "U">>, name |-> <<"L", "u", "x", "e", "m", "b", "o", "u", "r", "g">>],
      [code |-> <<"M", "T">>, name |-> <<"M", "a", "l", "t", "a">>],
      [code |-> <<"N", "L">>, name |-> <<"N", "e", "t", "h", "e", "r", "l", "a", "n", "d", "s">>],
      [code |-> <<"P", "L">>, name |-> <<"P", "o", "l", "a", "n", "d">>],
      [code |-> <<"P", "T">>, name |-> <<"P", "o", "r", "t", "u", "g", "a", "l">>],
      [code |-> <<"R", "O">>, name |-> <<"R", "o", "m", "a", "n", "i", "a">>],
      [code |-> <<"S", "K">>, name |-> <<"S", "l", "o", "v", "a", "k", "i", "a">>],
      [code |-> <<"S", "I">>, name |-> <<"S", "l", "o", "v", "e", "n", "i", "a">>],
      [code |-> <<"E", "S">>, name |-> <<"S", "p", "a", "i", "n">>],
      [code |-> <<"S", "E">>, name |-> <<"S", "w", "e", "d", "e", "n">>],
      [code |-> <<"I", "S">>, name |-> <<"I", "c", "e", "l", "a", "n", "d">>],
      [code |-> <<"L", "I">>, name |-> <<"L", "i", "e", "c", "h", "t", "e", "n", "s", "t", "e", "i", "n">>],
      [code |-> <<"N", "O">>, name |-> <<"N", "o", "r", "w", "a", "y">>],
      [code |-> <<"U", "K">>, name |-> <<"U", "n", "i", "t", "e", "d", " ", "K", "i", "n", "g", "d", "o", "m">>],
      [code |-> <<"G", "B">>, name |-> <<"U", "n", "i", "t", "e", "d", " ", "K", "i", "n", "g", "d", "o", "m">>]>>

SERVICE_CODE_MAP ==
    <<[code |-> <<"a">>, label |-> <<"c", "u", "s", "t", "o", "d", "y">>],
      [code |-> <<"b">>, label |-> <<"t", "r", "a", "d", "i", "n", "g", " ", "p", "l", "a", "t", "f", "o", "r", "m">>],
      [code |-> <<"c">>, label |-> <<"e", "x", "c", "h", "a", "n", "g", "e", " ", "f", "u", "n", "d", "s">>],
      [code |-> <<"d">>, label |-> <<"e", "x", "c", "h", "a", "n", "g", "e", " ", "c", "r", "y", "p", "t", "o">>],
      [code |-> <<"e">>, label |-> <<"e", "x", "e", "c", "u", "t", "i", "o", "n">>],
      [code |-> <<"f">>, label |-> <<"p", "l", "a", "c", "i", "n", "g">>],
      [code |-> <<"g">>, label |-> <<"R", "T", "O">>],
      [code |-> <<"h">>, label |-> <<"a", "d", "v", "i", "c", "e">>],
      [code |-> <<"i">>, label |-> <<"p", "o", "r", "t", "f", "o", "l", "i", "o", " ", "m", "g", "m", "t">>],
      [code |-> <<"j">>, label |-> <<"t", "r", "a", "n", "s", "f", "e", "r">>]>>

(* ------------------------- shared helpers ------------------------------ *)

\* COUNTRY_MAP.get(code, default)
CountryGet(code, default) ==
    IF \E i \in DOMAIN COUNTRY_MAP : COUNTRY_MAP[i].code = code
    THEN COUNTRY_MAP[CHOOSE i \in DOMAIN COUNTRY_MAP : COUNTRY_MAP[i].code = code].name
    ELSE default

\* SERVICE_CODE_MAP.get(code, default)
ServiceGet(code, default) ==
    IF \E i \in DOMAIN SERVICE_CODE_MAP : SERVICE_CODE_MAP[i].code = code
    THEN SERVICE_CODE_MAP[CHOOSE i \in DOMAIN SERVICE_CODE_MAP : SERVICE_CODE_MAP[i].code = code].label
    ELSE default

\* hashlib.sha256(...).hexdigest(): SHA-256 is taken to be collision-free, so
\* the digest is modelled as an injective function of the bytes fed to it.
Sha256Hex(bytes) == [sha256 |-> bytes]

RECURSIVE FedBytes(_, _)
\* the bytes hash_row feeds to the digest: str(row.get(column, "")) for each
\* column in order, one update after the other with nothing in between
FedBytes(row, columns) ==
    IF columns = <<>> THEN <<>>
    ELSE (IF Head(columns) \in DOMAIN row THEN PyStr(row[Head(columns)]) ELSE <<>>)
         \o FedBytes(row, Tail(columns))

hash_row(row, columns) == Sha256Hex(FedBytes(row, columns))

\* the identity key both normalisers build
MakePk(state, authority, name) ==
    StrUpper(state) \o <<"|">> \o StrLower(authority) \o <<"|">> \o StrLower(name)

RECURSIVE SelectSeq2(_, _)
\* the rows of a frame that satisfy a boolean mask, in order
SelectSeq2(rows, keep) ==
    IF rows = <<>> THEN <<>>
    ELSE (IF keep[1] THEN <<Head(rows)>> ELSE <<>>)
         \o SelectSeq2(Tail(rows), Tail(keep))

RECURSIVE SplitOn(_, _, _)
\* str.split(sep) for a one-character separator; acc is the part being read
SplitOn(s, sep, acc) ==
    IF s = <<>> THEN <<acc>>
    ELSE IF Head(s) = sep THEN <<acc>> \o SplitOn(Tail(s), sep, <<>>)
    ELSE SplitOn(Tail(s), sep, Append(acc, Head(s)))

(* ------------------------- header normaliser --------------------------- *)
(* A frame as downloaded is [columns, rows]: its headers in the order of    *)
(* the file, each a text and no two the same, and its rows, each a          *)
(* function from the headers to cells.  After normalize_columns the         *)
(* columns are labels and the rows functions from the labels to cells.      *)

RECURSIVE UnderscoreCapitals(_, _)
\* re.sub("(?<!^)(?=[A-Z])", "_", name): an underscore before every capital
\* of A-Z that is not the first character
UnderscoreCapitals(s, atStart) ==
    IF s = <<>> THEN <<>>
    ELSE (IF ~atStart /\ (\E i \in DOMAIN UpperAlpha : UpperAlpha[i] = Head(s))
          THEN <<"_">> ELSE <<>>)
         \o <<Head(s)>> \o UnderscoreCapitals(Tail(s), FALSE)

RECURSIVE ReplaceDouble(_)
\* str.replace("__", "_"): one pass from the left over non-overlapping pairs
ReplaceDouble(s) ==
    IF s = <<>> THEN <<>>
    ELSE IF Len(s) >= 2 /\ s[1] = "_" /\ s[2] = "_"
    THEN <<"_">> \o ReplaceDouble(SubSeq(s, 3, Len(s)))
    ELSE <<Head(s)>> \o ReplaceDouble(Tail(s))

to_snake_case(name) ==
    LET stripped == StrStrip(name)
        spaced == [i \in DOMAIN stripped |-> IF stripped[i] = " " THEN "_" ELSE stripped[i]]
    IN  StrLower(ReplaceDouble(UnderscoreCapitals(spaced, TRUE)))

\* the headers of the registers
CompetentAuthorityHeader == <<"a", "e", "_", "c", "o", "m", "p", "e", "t", "e", "n", "t", "A", "u", "t", "h", "o", "r", "i", "t", "y">>
HomeMemberStateHeader == <<"a", "e", "_", "h", "o", "m", "e", "M", "e", "m", "b", "e", "r", "S", "t", "a", "t", "e">>
LeiNameHeader == <<"a", "e", "_", "l", "e", "i", "_", "n", "a", "m", "e">>
WebsiteHeader == <<" ", "a", "e", "_", "w", "e", "b", "s", "i", "t", "e">>
ServiceCodeHeader == <<"a", "c", "_", "s", "e", "r", "v", "i", "c", "e", "C", "o", "d", "e">>
CommentsHeader == <<"a", "e", "_", "c", "o", "m", "m", "e", "n", "t", "s">>
LastUpdateHeader == <<"a", "c", "_", "l", "a", "s", "t", "u", "p", "d", "a", "t", "e">>
MarkHeader == <<"C", "o", "l", "u", "m", "n", " ", "1">>

CaspColumns ==
    <<CompetentAuthorityHeader, HomeMemberStateHeader, LeiNameHeader, WebsiteHeader,
      ServiceCodeHeader, CommentsHeader, LastUpdateHeader>>

NonCompliantColumns ==
    <<CompetentAuthorityHeader, HomeMemberStateHeader, LeiNameHeader, WebsiteHeader,
      MarkHeader, CommentsHeader>>

\* the labels of the registers' headers, computed once
RegisterLabels ==
    [h \in ListSet(CaspColumns) \cup ListSet(NonCompliantColumns) |->
        Label(to_snake_case(h))]

\* the label normalize_columns gives a header
Renamed(header) ==
    IF header \in DOMAIN RegisterLabels THEN RegisterLabels[header]
    ELSE Label(to_snake_case(header))

\* two headers of the frame get one label: the frame then has two columns
\* of that label, and the copy of it into its raw_ column raises ValueError
HeadersCollide(df) ==
    \E i, j \in DOMAIN df.columns :
        i # j /\ Renamed(df.columns[i]) = Renamed(df.columns[j])

\* normalize_columns(df), for a frame whose headers do not collide
normalize_columns(df) ==
    [columns |-> [i \in DOMAIN df.columns |-> Renamed(df.columns[i])],
     rows |-> [i \in DOMAIN df.rows |->
                 [c \in {Renamed(h) : h \in ListSet(df.columns)} |->
                     df.rows[i][CHOOSE h \in ListSet(df.columns) : Renamed(h) = c]]]]

\* df[column] = value, on one row of the frame
SetCell(r, column, value) ==
    [c \in DOMAIN r \cup {column} |-> IF c = column THEN value ELSE r[c]]

\* df.columns after df[column] = ...: a column the frame has keeps its
\* place, a new one comes last
WithColumn(columns, column) ==
    IF column \in ListSet(columns) THEN columns ELSE Append(columns, column)

RECURSIVE WithColumns(_, _)
\* df.columns after an assignment to each of the columns named, in order
WithColumns(columns, named) ==
    IF named = <<>> THEN columns
    ELSE WithColumns(WithColumn(columns, Head(named)), Tail(named))

RECURSIVE RawCopies(_, _)
\* for column in list(df.columns): df[f"raw_{column}"] = df[column], on one
\* row r, columns being those still to copy: each copy is of the cell as
\* the copies before it left it, so a column of the source that is named
\* raw_x is overwritten by the copy of x, and its own copy, raw_raw_x, holds
\* what it held when its turn came
RawCopies(columns, r) ==
    IF columns = <<>> THEN r
    ELSE RawCopies(Tail(columns), SetCell(r, "raw_" \o Head(columns), r[Head(columns)]))

\* df.columns after the raw_ copies: the copy of a column the frame does
\* not have comes last
RawColumns(columns) ==
    WithColumns(columns, [i \in DOMAIN columns |-> "raw_" \o columns[i]])

(* ------------------------------- dates --------------------------------- *)

Digits == <<"0", "1", "2", "3", "4", "5", "6", "7", "8", "9">>

IsNumber(s) == s # <<>> /\ \A i \in DOMAIN s : \E d \in DOMAIN Digits : Digits[d] = s[i]

RECURSIVE Number(_)
\* the value of a text of digits
Number(s) ==
    IF s = <<>> THEN 0
    ELSE 10 * Number(SubSeq(s, 1, Len(s) - 1))
         + (CHOOSE d \in DOMAIN Digits : Digits[d] = s[Len(s)]) - 1

\* the characters c outside Latin-1 with c.isdigit(), as ranges of code points
DigitRanges ==
    <<\H0660, \H0669,  \H06F0, \H06F9,  \H07C0, \H07C9,  \H0966, \H096F,
      \H09E6, \H09EF,  \H0A66, \H0A6F,  \H0AE6, \H0AEF,  \H0B66, \H0B6F,
      \H0BE6, \H0BEF,  \H0C66, \H0C6F,  \H0CE6, \H0CEF,  \H0D66, \H0D6F,
      \H0DE6, \H0DEF,  \H0E50, \H0E59,  \H0ED0, \H0ED9,  \H0F20, \H0F29,
      \H1040, \H1049,  \H1090, \H1099,  \H1369, \H1371,  \H17E0, \H17E9,
      \H1810, \H1819,  \H1946, \H194F,  \H19D0, \H19DA,  \H1A80, \H1A89,
      \H1A90, \H1A99,  \H1B50, \H1B59,  \H1BB0, \H1BB9,  \H1C40, \H1C49,
      \H1C50, \H1C59,  \H2070, \H2070,  \H2074, \H2079,  \H2080, \H2089,
      \H2460, \H2468,  \H2474, \H247C,  \H2488, \H2490,  \H24EA, \H24EA,
      \H24F5, \H24FD,  \H24FF, \H24FF,  \H2776, \H277E,  \H2780, \H2788,
      \H278A, \H2792,  \HA620, \HA629,  \HA8D0, \HA8D9,  \HA900, \HA909,
      \HA9D0, \HA9D9,  \HA9F0, \HA9F9,  \HAA50, \HAA59,  \HABF0, \HABF9,
      \HFF10, \HFF19,  \H104A0, \H104A9,  \H10A40, \H10A43,  \H10D30, \H10D39,
      \H10E60, \H10E68,  \H11052, \H1105A,  \H11066, \H1106F,  \H110F0, \H110F9,
      \H11136, \H1113F,  \H111D0, \H111D9,  \H112F0, \H112F9,  \H11450, \H11459,
      \H114D0, \H114D9,  \H11650, \H11659,  \H116C0, \H116C9,  \H11730, \H11739,
      \H118E0, \H118E9,  \H11950, \H11959,  \H11C50, \H11C59,  \H11D50, \H11D59,
      \H11DA0, \H11DA9,  \H16A60, \H16A69,  \H16AC0, \H16AC9,  \H16B50, \H16B59,
      \H1D7CE, \H1D7FF,  \H1E140, \H1E149,  \H1E2F0, \H1E2F9,  \H1E950, \H1E959,
      \H1F100, \H1F10A,  \H1FBF0, \H1FBF9>>

\* the characters c outside Latin-1 with c.isalpha(), as ranges of code points
AlphaRanges ==
    <<\H0100, \H02C1,  \H02C6, \H02D1,  \H02E0, \H02E4,  \H02EC, \H02EC,
      \H02EE, \H02EE,  \H0370, \H0374,  \H0376, \H0377,  \H037A, \H037D,
      \H037F, \H037F,  \H0386, \H0386,  \H0388, \H038A,  \H038C, \H038C,
      \H038E, \H03A1,  \H03A3, \H03F5,  \H03F7, \H0481,  \H048A, \H052F,
      \H0531, \H0556,  \H0559, \H0559,  \H0560, \H0588,  \H05D0, \H05EA,
      \H05EF, \H05F2,  \H0620, \H064A,  \H066E, \H066F,  \H0671, \H06D3,
      \H06D5, \H06D5,  \H06E5, \H06E6,  \H06EE, \H06EF,  \H06FA, \H06FC,
      \H06FF, \H06FF,  \H0710, \H0710,  \H0712, \H072F,  \H074D, \H07A5,
      \H07B1, \H07B1,  \H07CA, \H07EA,  \H07F4, \H07F5,  \H07FA, \H07FA,
      \H0800, \H0815,  \H081A, \H081A,  \H0824, \H0824,  \H0828, \H0828,
      \H0840, \H0858,  \H0860, \H086A,  \H0870, \H0887,  \H0889, \H088E,
      \H08A0, \H08C9,  \H0904, \H0939,  \H093D, \H093D,  \H0950, \H0950,
      \H0958, \H0961,  \H0971, \H0980,  \H0985, \H098C,  \H098F, \H0990,
      \H0993, \H09A8,  \H09AA, \H09B0,  \H09B2, \H09B2,  \H09B6, \H09B9,
      \H09BD, \H09BD,  \H09CE, \H09CE,  \H09DC, \H09DD,  \H09DF, \H09E1,
      \H09F0, \H09F1,  \H09FC, \H09FC,  \H0A05, \H0A0A,  \H0A0F, \H0A10,
      \H0A13, \H0A28,  \H0A2A, \H0A30,  \H0A32, \H0A33,  \H0A35, \H0A36,
      \H0A38, \H0A39,  \H0A59, \H0A5C,  \H0A5E, \H0A5E,  \H0A72, \H0A74,
      \H0A85, \H0A8D,  \H0A8F, \H0A91,  \H0A93, \H0AA8,  \H0AAA, \H0AB0,
      \H0AB2, \H0AB3,  \H0AB5, \H0AB9,  \H0ABD, \H0ABD,  \H0AD0, \H0AD0,
      \H0AE0, \H0AE1,  \H0AF9, \H0AF9,  \H0B05, \H0B0C,  \H0B0F, \H0B10,
      \H0B13, \H0B28,  \H0B2A, \H0B30,  \H0B32, \H0B33,  \H0B35, \H0B39,
      \H0B3D, \H0B3D,  \H0B5C, \H0B5D,  \H0B5F, \H0B61,  \H0B71, \H0B71,
      \H0B83, \H0B83,  \H0B85, \H0B8A,  \H0B8E, \H0B90,  \H0B92, \H0B95,
      \H0B99, \H0B9A,  \H0B9C, \H0B9C,  \H0B9E, \H0B9F,  \H0BA3, \H0BA4,
      \H0BA8, \H0BAA,  \H0BAE, \H0BB9,  \H0BD0, \H0BD0,  \H0C05, \H0C0C,
      \H0C0E, \H0C10,  \H0C12, \H0C28,  \H0C2A, \H0C39,  \H0C3D, \H0C3D,
      \H0C58, \H0C5A,  \H0C5D, \H0C5D,  \H0C60, \H0C61,  \H0C80, \H0C80,
      \H0C85, \H0C8C,  \H0C8E, \H0C90,  \H0C92, \H0CA8,  \H0CAA, \H0CB3,
      \H0CB5, \H0CB9,  \H0CBD, \H0CBD,  \H0CDD, \H0CDE,  \H0CE0, \H0CE1,
      \H0CF1, \H0CF2,  \H0D04, \H0D0C,  \H0D0E, \H0D10,  \H0D12, \H0D3A,
      \H0D3D, \H0D3D,  \H0D4E, \H0D4E,  \H0D54, \H0D56,  \H0D5F, \H0D61,
      \H0D7A, \H0D7F,  \H0D85, \H0D96,  \H0D9A, \H0DB1,  \H0DB3, \H0DBB,
      \H0DBD, \H0DBD,  \H0DC0, \H0DC6,  \H0E01, \H0E30,  \H0E32, \H0E33,
      \H0E40, \H0E46,  \H0E81, \H0E82,  \H0E84, \H0E84,  \H0E86, \H0E8A,
      \H0E8C, \H0EA3,  \H0EA5, \H0EA5,  \H0EA7, \H0EB0,  \H0EB2, \H0EB3,
      \H0EBD, \H0EBD,  \H0EC0, \H0EC4,  \H0EC6, \H0EC6,  \H0EDC, \H0EDF,
      \H0F00, \H0F00,  \H0F40, \H0F47,  \H0F49, \H0F6C,  \H0F88, \H0F8C,
      \H1000, \H102A,  \H103F, \H103F,  \H1050, \H1055,  \H105A, \H105D,
      \H1061, \H1061,  \H1065, \H1066,  \H106E, \H1070,  \H1075, \H1081,
      \H108E, \H108E,  \H10A0, \H10C5,  \H10C7, \H10C7,  \H10CD, \H10CD,
      \H10D0, \H10FA,  \H10FC, \H1248,  \H124A, \H124D,  \H1250, \H1256,
      \H1258, \H1258,  \H125A, \H125D,  \H1260, \H1288,  \H128A, \H128D,
      \H1290, \H12B0,  \H12B2, \H12B5,  \H12B8, \H12BE,  \H12C0, \H12C0,
      \H12C2, \H12C5,  \H12C8, \H12D6,  \H12D8, \H1310,  \H1312, \H1315,
      \H1318, \H135A,  \H1380, \H138F,  \H13A0, \H13F5,  \H13F8, \H13FD,
      \H1401, \H166C,  \H166F, \H167F,  \H1681, \H169A,  \H16A0, \H16EA,
      \H16F1, \H16F8,  \H1700, \H1711,  \H171F, \H1731,  \H1740, \H1751,
      \H1760, \H176C,  \H176E, \H1770,  \H1780, \H17B3,  \H17D7, \H17D7,
      \H17DC, \H17DC,  \H1820, \H1878,  \H1880, \H1884,  \H1887, \H18A8,
      \H18AA, \H18AA,  \H18B0, \H18F5,  \H1900, \H191E,  \H1950, \H196D,
      \H1970, \H1974,  \H1980, \H19AB,  \H19B0, \H19C9,  \H1A00, \H1A16,
      \H1A20, \H1A54,  \H1AA7, \H1AA7,  \H1B05, \H1B33,  \H1B45, \H1B4C,
      \H1B83, \H1BA0,  \H1BAE, \H1BAF,  \H1BBA, \H1BE5,  \H1C00, \H1C23,
      \H1C4D, \H1C4F,  \H1C5A, \H1C7D,  \H1C80, \H1C88,  \H1C90, \H1CBA,
      \H1CBD, \H1CBF,  \H1CE9, \H1CEC,  \H1CEE, \H1CF3,  \H1CF5, \H1CF6,
      \H1CFA, \H1CFA,  \H1D00, \H1DBF,  \H1E00, \H1F15,  \H1F18, \H1F1D,
      \H1F20, \H1F45,  \H1F48, \H1F4D,  \H1F50, \H1F57,  \H1F59, \H1F59,
      \H1F5B, \H1F5B,  \H1F5D, \H1F5D,  \H1F5F, \H1F7D,  \H1F80, \H1FB4,
      \H1FB6, \H1FBC,  \H1FBE, \H1FBE,  \H1FC2, \H1FC4,  \H1FC6, \H1FCC,
      \H1FD0, \H1FD3,  \H1FD6, \H1FDB,  \H1FE0, \H1FEC,  \H1FF2, \H1FF4,
      \H1FF6, \H1FFC,  \H2071, \H2071,  \H207F, \H207F,  \H2090, \H209C,
      \H2102, \H2102,  \H2107, \H2107,  \H210A, \H2113,  \H2115, \H2115,
      \H2119, \H211D,  \H2124, \H2124,  \H2126, \H2126,  \H2128, \H2128,
      \H212A, \H212D,  \H212F, \H2139,  \H213C, \H213F,  \H2145, \H2149,
      \H214E, \H214E,  \H2183, \H2184,  \H2C00, \H2CE4,  \H2CEB, \H2CEE,
      \H2CF2, \H2CF3,  \H2D00, \H2D25,  \H2D27, \H2D27,  \H2D2D, \H2D2D,
      \H2D30, \H2D67,  \H2D6F, \H2D6F,  \H2D80, \H2D96,  \H2DA0, \H2DA6,
      \H2DA8, \H2DAE,  \H2DB0, \H2DB6,  \H2DB8, \H2DBE,  \H2DC0, \H2DC6,
      \H2DC8, \H2DCE,  \H2DD0, \H2DD6,  \H2DD8, \H2DDE,  \H2E2F, \H2E2F,
      \H3005, \H3006,  \H3031, \H3035,  \H303B, \H303C,  \H3041, \H3096,
      \H309D, \H309F,  \H30A1, \H30FA,  \H30FC, \H30FF,  \H3105, \H312F,
      \H3131, \H318E,  \H31A0, \H31BF,  \H31F0, \H31FF,  \H3400, \H4DBF,
      \H4E00, \HA48C,  \HA4D0, \HA4FD,  \HA500, \HA60C,  \HA610, \HA61F,
      \HA62A, \HA62B,  \HA640, \HA66E,  \HA67F, \HA69D,  \HA6A0, \HA6E5,
      \HA717, \HA71F,  \HA722, \HA788,  \HA78B, \HA7CA,  \HA7D0, \HA7D1,
      \HA7D3, \HA7D3,  \HA7D5, \HA7D9,  \HA7F2, \HA801,  \HA803, \HA805,
      \HA807, \HA80A,  \HA80C, \HA822,  \HA840, \HA873,  \HA882, \HA8B3,
      \HA8F2, \HA8F7,  \HA8FB, \HA8FB,  \HA8FD, \HA8FE,  \HA90A, \HA925,
      \HA930, \HA946,  \HA960, \HA97C,  \HA984, \HA9B2,  \HA9CF, \HA9CF,
      \HA9E0, \HA9E4,  \HA9E6, \HA9EF,  \HA9FA, \HA9FE,  \HAA00, \HAA28,
      \HAA40, \HAA42,  \HAA44, \HAA4B,  \HAA60, \HAA76,  \HAA7A, \HAA7A,
      \HAA7E, \HAAAF,  \HAAB1, \HAAB1,  \HAAB5, \HAAB6,  \HAAB9, \HAABD,
      \HAAC0, \HAAC0,  \HAAC2, \HAAC2,  \HAADB, \HAADD,  \HAAE0, \HAAEA,
      \HAAF2, \HAAF4,  \HAB01, \HAB06,  \HAB09, \HAB0E,  \HAB11, \HAB16,
      \HAB20, \HAB26,  \HAB28, \HAB2E,  \HAB30, \HAB5A,  \HAB5C, \HAB69,
      \HAB70, \HABE2,  \HAC00, \HD7A3,  \HD7B0, \HD7C6,  \HD7CB, \HD7FB,
      \HF900, \HFA6D,  \HFA70, \HFAD9,  \HFB00, \HFB06,  \HFB13, \HFB17,
      \HFB1D, \HFB1D,  \HFB1F, \HFB28,  \HFB2A, \HFB36,  \HFB38, \HFB3C,
      \HFB3E, \HFB3E,  \HFB40, \HFB41,  \HFB43, \HFB44,  \HFB46, \HFBB1,
      \HFBD3, \HFD3D,  \HFD50, \HFD8F,  \HFD92, \HFDC7,  \HFDF0, \HFDFB,
      \HFE70, \HFE74,  \HFE76, \HFEFC,  \HFF21, \HFF3A,  \HFF41, \HFF5A,
      \HFF66, \HFFBE,  \HFFC2, \HFFC7,  \HFFCA, \HFFCF,  \HFFD2, \HFFD7,
      \HFFDA, \HFFDC,  \H10000, \H1000B,  \H1000D, \H10026,  \H10028, \H1003A,
      \H1003C, \H1003D,  \H1003F, \H1004D,  \H10050, \H1005D,  \H10080, \H100FA,
      \H10280, \H1029C,  \H102A0, \H102D0,  \H10300, \H1031F,  \H1032D, \H10340,
      \H10342, \H10349,  \H10350, \H10375,  \H10380, \H1039D,  \H103A0, \H103C3,
      \H103C8, \H103CF,  \H10400, \H1049D,  \H104B0, \H104D3,  \H104D8, \H104FB,
      \H10500, \H10527,  \H10530, \H10563,  \H10570, \H1057A,  \H1057C, \H1058A,
      \H1058C, \H10592,  \H10594, \H10595,  \H10597, \H105A1,  \H105A3, \H105B1,
      \H105B3, \H105B9,  \H105BB, \H105BC,  \H10600, \H10736,  \H10740, \H10755,
      \H10760, \H10767,  \H10780, \H10785,  \H10787, \H107B0,  \H107B2, \H107BA,
      \H10800, \H10805,  \H10808, \H10808,  \H1080A, \H10835,  \H10837, \H10838,
      \H1083C, \H1083C,  \H1083F, \H10855,  \H10860, \H10876,  \H10880, \H1089E,
      \H108E0, \H108F2,  \H108F4, \H108F5,  \H10900, \H10915,  \H10920, \H10939,
      \H10980, \H109B7,  \H109BE, \H109BF,  \H10A00, \H10A00,  \H10A10, \H10A13,
      \H10A15, \H10A17,  \H10A19, \H10A35,  \H10A60, \H10A7C,  \H10A80, \H10A9C,
      \H10AC0, \H10AC7,  \H10AC9, \H10AE4,  \H10B00, \H10B35,  \H10B40, \H10B55,
      \H10B60, \H10B72,  \H10B80, \H10B91,  \H10C00, \H10C48,  \H10C80, \H10CB2,
      \H10CC0, \H10CF2,  \H10D00, \H10D23,  \H10E80, \H10EA9,  \H10EB0, \H10EB1,
      \H10F00, \H10F1C,  \H10F27, \H10F27,  \H10F30, \H10F45,  \H10F70, \H10F81,
      \H10FB0, \H10FC4,  \H10FE0, \H10FF6,  \H11003, \H11037,  \H11071, \H11072,
      \H11075, \H11075,  \H11083, \H110AF,  \H110D0, \H110E8,  \H11103, \H11126,
      \H11144, \H11144,  \H11147, \H11147,  \H11150, \H11172,  \H11176, \H11176,
      \H11183, \H111B2,  \H111C1, \H111C4,  \H111DA, \H111DA,  \H111DC, \H111DC,
      \H11200, \H11211,  \H11213, \H1122B,  \H11280, \H11286,  \H11288, \H11288,
      \H1128A, \H1128D,  \H1128F, \H1129D,  \H1129F, \H112A8,  \H112B0, \H112DE,
      \H11305, \H1130C,  \H1130F, \H11310,  \H11313, \H11328,  \H1132A, \H11330,
      \H11332, \H11333,  \H11335, \H11339,  \H1133D, \H1133D,  \H11350, \H11350,
      \H1135D, \H11361,  \H11400, \H11434,  \H11447, \H1144A,  \H1145F, \H11461,
      \H11480, \H114AF,  \H114C4, \H114C5,  \H114C7, \H114C7,  \H11580, \H115AE,
      \H115D8, \H115DB,  \H11600, \H1162F,  \H11644, \H11644,  \H11680, \H116AA,
      \H116B8, \H116B8,  \H11700, \H1171A,  \H11740, \H11746,  \H11800, \H1182B,
      \H118A0, \H118DF,  \H118FF, \H11906,  \H11909, \H11909,  \H1190C, \H11913,
      \H11915, \H11916,  \H11918, \H1192F,  \H1193F, \H1193F,  \H11941, \H11941,
      \H119A0, \H119A7,  \H119AA, \H119D0,  \H119E1, \H119E1,  \H119E3, \H119E3,
      \H11A00, \H11A00,  \H11A0B, \H11A32,  \H11A3A, \H11A3A,  \H11A50, \H11A50,
      \H11A5C, \H11A89,  \H11A9D, \H11A9D,  \H11AB0, \H11AF8,  \H11C00, \H11C08,
      \H11C0A, \H11C2E,  \H11C40, \H11C40,  \H11C72, \H11C8F,  \H11D00, \H11D06,
      \H11D08, \H11D09,  \H11D0B, \H11D30,  \H11D46, \H11D46,  \H11D60, \H11D65,
      \H11D67, \H11D68,  \H11D6A, \H11D89,  \H11D98, \H11D98,  \H11EE0, \H11EF2,
      \H11FB0, \H11FB0,  \H12000, \H12399,  \H12480, \H12543,  \H12F90, \H12FF0,
      \H13000, \H1342E,  \H14400, \H14646,  \H16800, \H16A38,  \H16A40, \H16A5E,
      \H16A70, \H16ABE,  \H16AD0, \H16AED,  \H16B00, \H16B2F,  \H16B40, \H16B43,
      \H16B63, \H16B77,  \H16B7D, \H16B8F,  \H16E40, \H16E7F,  \H16F00, \H16F4A,
      \H16F50, \H16F50,  \H16F93, \H16F9F,  \H16FE0, \H16FE1,  \H16FE3, \H16FE3,
      \H17000, \H187F7,  \H18800, \H18CD5,  \H18D00, \H18D08,  \H1AFF0, \H1AFF3,
      \H1AFF5, \H1AFFB,  \H1AFFD, \H1AFFE,  \H1B000, \H1B122,  \H1B150, \H1B152,
      \H1B164, \H1B167,  \H1B170, \H1B2FB,  \H1BC00, \H1BC6A,  \H1BC70, \H1BC7C,
      \H1BC80, \H1BC88,  \H1BC90, \H1BC99,  \H1D400, \H1D454,  \H1D456, \H1D49C,
      \H1D49E, \H1D49F,  \H1D4A2, \H1D4A2,  \H1D4A5, \H1D4A6,  \H1D4A9, \H1D4AC,
      \H1D4AE, \H1D4B9,  \H1D4BB, \H1D4BB,  \H1D4BD, \H1D4C3,  \H1D4C5, \H1D505,
      \H1D507, \H1D50A,  \H1D50D, \H1D514,  \H1D516, \H1D51C,  \H1D51E, \H1D539,
      \H1D53B, \H1D53E,  \H1D540, \H1D544,  \H1D546, \H1D546,  \H1D54A, \H1D550,
      \H1D552, \H1D6A5,  \H1D6A8, \H1D6C0,  \H1D6C2, \H1D6DA,  \H1D6DC, \H1D6FA,
      \H1D6FC, \H1D714,  \H1D716, \H1D734,  \H1D736, \H1D74E,  \H1D750, \H1D76E,
      \H1D770, \H1D788,  \H1D78A, \H1D7A8,  \H1D7AA, \H1D7C2,  \H1D7C4, \H1D7CB,
      \H1DF00, \H1DF1E,  \H1E100, \H1E12C,  \H1E137, \H1E13D,  \H1E14E, \H1E14E,
      \H1E290, \H1E2AD,  \H1E2C0, \H1E2EB,  \H1E7E0, \H1E7E6,  \H1E7E8, \H1E7EB,
      \H1E7ED, \H1E7EE,  \H1E7F0, \H1E7FE,  \H1E800, \H1E8C4,  \H1E900, \H1E943,
      \H1E94B, \H1E94B,  \H1EE00, \H1EE03,  \H1EE05, \H1EE1F,  \H1EE21, \H1EE22,
      \H1EE24, \H1EE24,  \H1EE27, \H1EE27,  \H1EE29, \H1EE32,  \H1EE34, \H1EE37,
      \H1EE39, \H1EE39,  \H1EE3B, \H1EE3B,  \H1EE42, \H1EE42,  \H1EE47, \H1EE47,
      \H1EE49, \H1EE49,  \H1EE4B, \H1EE4B,  \H1EE4D, \H1EE4F,  \H1EE51, \H1EE52,
      \H1EE54, \H1EE54,  \H1EE57, \H1EE57,  \H1EE59, \H1EE59,  \H1EE5B, \H1EE5B,
      \H1EE5D, \H1EE5D,  \H1EE5F, \H1EE5F,  \H1EE61, \H1EE62,  \H1EE64, \H1EE64,
      \H1EE67, \H1EE6A,  \H1EE6C, \H1EE72,  \H1EE74, \H1EE77,  \H1EE79, \H1EE7C,
      \H1EE7E, \H1EE7E,  \H1EE80, \H1EE89,  \H1EE8B, \H1EE9B,  \H1EEA1, \H1EEA3,
      \H1EEA5, \H1EEA9,  \H1EEAB, \H1EEBB,  \H20000, \H2A6DF,  \H2A700, \H2B738,
      \H2B740, \H2B81D,  \H2B820, \H2CEA1,  \H2CEB0, \H2EBE0,  \H2F800, \H2FA1D,
      \H30000, \H3134A>>

\* the characters of Latin-1 beyond ASCII with c.isalpha()
AlphaLatin ==
    {"ª", "µ", "º", "À", "Á", "Â", "Ã", "Ä", "Å", "Æ", "Ç", "È", "É", "Ê", "Ë", "Ì",
     "Í", "Î", "Ï", "Ð", "Ñ", "Ò", "Ó", "Ô", "Õ", "Ö", "Ø", "Ù", "Ú", "Û", "Ü", "Ý",
     "Þ", "ß", "à", "á", "â", "ã", "ä", "å", "æ", "ç", "è", "é", "ê", "ë", "ì", "í",
     "î", "ï", "ð", "ñ", "ò", "ó", "ô", "õ", "ö", "ø", "ù", "ú", "û", "ü", "ý", "þ",
     "ÿ"}

\* c.isalpha(), c.isdigit() and c.isspace() for a character of a text
IsAlpha(c) ==
    IF Len(c) > 2 THEN InRanges(CodePoint(c), AlphaRanges)
    ELSE \/ \E i \in 1..26 : c \in {LowerAlpha[i], UpperAlpha[i]}
         \/ c \in AlphaLatin

IsDigit(c) ==
    IF Len(c) > 2 THEN InRanges(CodePoint(c), DigitRanges)
    ELSE IsNumber(<<c>>) \/ c \in {"¹", "²", "³"}

IsSpace(c) == c \in Whitespace

\* the text holds a character a date parser reads as a digit (in Latin-1 the
\* ten digits and the superscripts one, two and three)
HasDigit(s) == \E i \in DOMAIN s : IsDigit(s[i])

IsLeap(y) == (y % 4 = 0 /\ y % 100 # 0) \/ y % 400 = 0

DaysIn(y, m) ==
    CASE m = 2 -> (IF IsLeap(y) THEN 29 ELSE 28)
      [] m \in {4, 6, 9, 11} -> 30
      [] OTHER -> 31

\* datetime(y, m, d) is a date of the calendar
IsDate(y, m, d) ==
    /\ y \in 1..9999
    /\ m \in 1..12
    /\ d \in 1..DaysIn(y, m)

\* the instant is one a Timestamp of nanoseconds holds, from Timestamp.min,
\* 1677-09-21 00:12:43.145224193, to Timestamp.max,
\* 2262-04-11 23:47:16.854775807; outside them the conversion raises
\* OutOfBoundsDatetime
InBounds(y, m, d, seconds, nanos) ==
    LET day == 10000 * y + 100 * m + d
    IN  /\ \/ day > 16770921
           \/ day = 16770921
              /\ (seconds > 763 \/ (seconds = 763 /\ nanos >= 145224193))
        /\ \/ day < 22620411
           \/ day = 22620411
              /\ (seconds < 85636 \/ (seconds = 85636 /\ nanos <= 854775807))

\* date.isoformat()
IsoFormat(y, m, d) ==
    <<Digits[(y \div 1000) + 1], Digits[((y \div 100) % 10) + 1],
      Digits[((y \div 10) % 10) + 1], Digits[(y % 10) + 1], "-",
      Digits[(m \div 10) + 1], Digits[(m % 10) + 1], "-",
      Digits[(d \div 10) + 1], Digits[(d % 10) + 1]>>

\* dateutil's parserinfo.MONTHS, in lower case
MONTHS ==
    <<{<<"j", "a", "n">>, <<"j", "a", "n", "u", "a", "r", "y">>},
      {<<"f", "e", "b">>, <<"f", "e", "b", "r", "u", "a", "r", "y">>},
      {<<"m", "a", "r">>, <<"m", "a", "r", "c", "h">>},
      {<<"a", "p", "r">>, <<"a", "p", "r", "i", "l">>},
      {<<"m", "a", "y">>},
      {<<"j", "u", "n">>, <<"j", "u", "n", "e">>},
      {<<"j", "u", "l">>, <<"j", "u", "l", "y">>},
      {<<"a", "u", "g">>, <<"a", "u", "g", "u", "s", "t">>},
      {<<"s", "e", "p">>, <<"s", "e", "p", "t">>, <<"s", "e", "p", "t", "e", "m", "b", "e", "r">>},
      {<<"o", "c", "t">>, <<"o", "c", "t", "o", "b", "e", "r">>},
      {<<"n", "o", "v">>, <<"n", "o", "v", "e", "m", "b", "e", "r">>},
      {<<"d", "e", "c">>, <<"d", "e", "c", "e", "m", "b", "e", "r">>}>>

\* parserinfo.month(name): the number of the month, 0 for a word that names
\* none
MonthNamed(name) ==
    IF \E m \in 1..12 : name \in MONTHS[m]
    THEN CHOOSE m \in 1..12 : name \in MONTHS[m]
    ELSE 0

MonthOf(word) == MonthNamed(StrLower(word))

\* parserinfo.convertyear on a year without its century: the year of the
\* fifty before and the forty-nine after the year of the clock, which
\* parserinfo reads with time.localtime().tm_year
convertyear(year, thisyear) ==
    LET y == year + (thisyear \div 100) * 100
    IN  IF y >= thisyear + 50 THEN y - 100
        ELSE IF y < thisyear - 50 THEN y + 100
        ELSE y

\* dateutil's _ymd.resolve_ymd with dayfirst and yearfirst off: which of the
\* values read, in their order in the text, is the year, the month and the
\* day (-1 for one the text does not give).  ystridx is the position of the
\* value read as a year for its length, mstridx that of a month given by
\* name, 0 for none.
resolve_ymd(v, ystridx, mstridx) ==
    LET Ymd(y, m, d) == [year |-> y, month |-> m, day |-> d]
        strids == (IF ystridx # 0 THEN 1 ELSE 0) + (IF mstridx # 0 THEN 1 ELSE 0)
    IN  IF (Len(v) = strids /\ strids > 0) \/ (Len(v) = 3 /\ strids = 2)
        THEN Ymd(IF ystridx # 0 THEN v[ystridx] ELSE -1,
                 IF mstridx # 0 THEN v[mstridx] ELSE -1,
                 IF Len(v) = 3 THEN v[6 - ystridx - mstridx] ELSE -1)
        ELSE IF Len(v) = 1
        THEN (IF v[1] > 31 THEN Ymd(v[1], -1, -1) ELSE Ymd(-1, -1, v[1]))
        ELSE IF Len(v) = 2 /\ mstridx # 0
        THEN (IF v[3 - mstridx] > 31 THEN Ymd(v[3 - mstridx], v[mstridx], -1)
              ELSE Ymd(-1, v[mstridx], v[3 - mstridx]))
        ELSE IF Len(v) = 2
        THEN (IF v[1] > 31 THEN Ymd(v[1], v[2], -1)
              ELSE IF v[2] > 31 THEN Ymd(v[2], v[1], -1)
              ELSE Ymd(-1, v[1], v[2]))
        ELSE IF mstridx = 1
        THEN (IF v[2] > 31 THEN Ymd(v[2], v[1], v[3]) ELSE Ymd(v[3], v[1], v[2]))
        ELSE IF mstridx = 2
        THEN (IF v[1] > 31 THEN Ymd(v[1], v[2], v[3]) ELSE Ymd(v[3], v[2], v[1]))
        ELSE IF mstridx = 3
        THEN (IF v[2] > 31 THEN Ymd(v[2], v[3], v[1]) ELSE Ymd(v[1], v[3], v[2]))
        ELSE IF v[1] > 31 \/ ystridx = 1 THEN Ymd(v[1], v[2], v[3])
        ELSE IF v[1] > 12 THEN Ymd(v[3], v[2], v[1])
        ELSE Ymd(v[3], v[1], v[2])

\* the number of times the character c stands in the token
CountOf(token, c) == Cardinality({i \in DOMAIN token : token[i] = c})

RECURSIVE SplitDecimal(_, _)
\* re.split("([.,])", token) without its empty pieces: the runs between the
\* "." and "," of the token and each "." and "," alone; acc is the run
\* being read
SplitDecimal(token, acc) ==
    IF token = <<>> THEN (IF acc = <<>> THEN <<>> ELSE <<acc>>)
    ELSE IF Head(token) \in {".", ","}
    THEN (IF acc = <<>> THEN <<>> ELSE <<acc>>) \o <<<<Head(token)>>>>
         \o SplitDecimal(Tail(token), <<>>)
    ELSE SplitDecimal(Tail(token), Append(acc, Head(token)))

\* what _timelex.get_token does with the token it has read when it leaves
\* its loop in the given state: a token with a "." or "," that has
\* letters, two "." or a "." or "," at its end is cut at each of them, and
\* the pieces are the next tokens; a number with a "," and no "." gets a
\* "." for it
Emitted(token, state, seenletters) ==
    IF /\ state \in {"a.", "0."}
       /\ \/ seenletters
          \/ CountOf(token, ".") > 1
          \/ token[Len(token)] \in {".", ","}
    THEN SplitDecimal(token, <<>>)
    ELSE IF state = "0." /\ CountOf(token, ".") = 0
    THEN <<[i \in DOMAIN token |-> IF token[i] = "," THEN "." ELSE token[i]]>>
    ELSE <<token>>

RECURSIVE Timelex(_, _, _, _, _)
\* the tokens of dateutil's _timelex from the character i of s on, the
\* lexer being in the given state with the token read so far ("none" for
\* no token begun): "a" reads a word, "0" a number, "a." and "0." a token
\* that has a "."; seenletters is set by each character the lexer looks at
\* in the states "a" and "a."
Timelex(s, i, state, token, seenletters) ==
    IF i > Len(s)
    THEN (IF state = "none" THEN <<>> ELSE Emitted(token, state, seenletters))
    ELSE IF s[i] = "U+0000" THEN Timelex(s, i + 1, state, token, seenletters)
    ELSE IF state = "none"
    THEN (IF IsAlpha(s[i]) THEN Timelex(s, i + 1, "a", <<s[i]>>, FALSE)
          ELSE IF IsDigit(s[i]) THEN Timelex(s, i + 1, "0", <<s[i]>>, FALSE)
          ELSE IF IsSpace(s[i]) THEN <<<<" ">>>> \o Timelex(s, i + 1, "none", <<>>, FALSE)
          ELSE <<<<s[i]>>>> \o Timelex(s, i + 1, "none", <<>>, FALSE))
    ELSE IF state = "a"
    THEN (IF IsAlpha(s[i]) THEN Timelex(s, i + 1, "a", Append(token, s[i]), TRUE)
          ELSE IF s[i] = "." THEN Timelex(s, i + 1, "a.", Append(token, s[i]), TRUE)
          ELSE Emitted(token, "a", TRUE) \o Timelex(s, i, "none", <<>>, FALSE))
    ELSE IF state = "0"
    THEN (IF IsDigit(s[i]) THEN Timelex(s, i + 1, "0", Append(token, s[i]), seenletters)
          ELSE IF s[i] = "." \/ (s[i] = "," /\ Len(token) >= 2)
          THEN Timelex(s, i + 1, "0.", Append(token, s[i]), seenletters)
          ELSE Emitted(token, "0", seenletters) \o Timelex(s, i, "none", <<>>, FALSE))
    ELSE IF state = "a."
    THEN (IF s[i] = "." \/ IsAlpha(s[i])
          THEN Timelex(s, i + 1, "a.", Append(token, s[i]), TRUE)
          ELSE IF IsDigit(s[i]) /\ token[Len(token)] = "."
          THEN Timelex(s, i + 1, "0.", Append(token, s[i]), TRUE)
          ELSE Emitted(token, "a.", TRUE) \o Timelex(s, i, "none", <<>>, FALSE))
    ELSE (IF s[i] = "." \/ IsDigit(s[i])
          THEN Timelex(s, i + 1, "0.", Append(token, s[i]), seenletters)
          ELSE IF IsAlpha(s[i]) /\ token[Len(token)] = "."
          THEN Timelex(s, i + 1, "a.", Append(token, s[i]), seenletters)
          ELSE Emitted(token, "0.", seenletters) \o Timelex(s, i, "none", <<>>, FALSE))

\* _timelex.split(s): the text cut as dateutil's lexer cuts a date, into
\* words, numbers with the "." of their fraction, " " for each character
\* of white space, and every other character alone
DateTokens(s) == Timelex(s, 1, "none", <<>>, FALSE)

\* the outcomes of pd.to_datetime on one text: a Timestamp, of which the
\* pipeline keeps the date; NaT; an exception
Timestamp(y, m, d) == [k |-> "timestamp", year |-> y, month |-> m, day |-> d]
NaT == [k |-> "nat"]
Raises == [k |-> "raises"]

\* the place of the first ":" among the tokens, 0 for none
FirstColon(tokens) ==
    IF \E i \in DOMAIN tokens : tokens[i] = <<":">>
    THEN CHOOSE i \in DOMAIN tokens :
             tokens[i] = <<":">> /\ \A j \in 1..(i - 1) : tokens[j] # <<":">>
    ELSE 0

\* the tokens of the date: those before the separator and the hour
DatePart(tokens) ==
    IF FirstColon(tokens) = 0 THEN tokens
    ELSE SubSeq(tokens, 1, FirstColon(tokens) - 3)

\* the tokens of the time of day, from the hour on, without a "Z" after them
ClockPart(tokens) ==
    IF FirstColon(tokens) = 0 THEN <<>>
    ELSE IF tokens[Len(tokens)] = <<"Z">>
    THEN SubSeq(tokens, FirstColon(tokens) - 1, Len(tokens) - 1)
    ELSE SubSeq(tokens, FirstColon(tokens) - 1, Len(tokens))

\* a number of at most n digits
Short(t, n) == IsNumber(t) /\ Len(t) <= n

\* the place of the "." in a token, 0 for none
DotPlace(t) ==
    IF \E i \in DOMAIN t : t[i] = "." THEN CHOOSE i \in DOMAIN t : t[i] = "." ELSE 0

\* the digits of a token of seconds before its ".", and those after it
WholeSeconds(t) == IF DotPlace(t) = 0 THEN t ELSE SubSeq(t, 1, DotPlace(t) - 1)
SecondFraction(t) == IF DotPlace(t) = 0 THEN <<>> ELSE SubSeq(t, DotPlace(t) + 1, Len(t))

\* a token of seconds: one or two digits, then a "." and up to nine digits
\* or nothing
SecondsToken(t) ==
    /\ Short(WholeSeconds(t), 2)
    /\ DotPlace(t) # 0 => Short(SecondFraction(t), 9)

\* the shapes of the time of day
ClockShape(tokens, clock) ==
    /\ FirstColon(tokens) >= 4
    /\ tokens[FirstColon(tokens) - 2] \in {<<" ">>, <<"T">>}
    /\ Len(clock) \in {3, 5}
    /\ Short(clock[1], 2) /\ Short(clock[3], 2)
    /\ Len(clock) = 5 => clock[4] = <<":">> /\ SecondsToken(clock[5])

\* the time of day in seconds, 0 where the text gives none
ClockSeconds(clock) ==
    IF clock = <<>> THEN 0
    ELSE 3600 * Number(clock[1]) + 60 * Number(clock[3])
         + (IF Len(clock) = 5 THEN Number(WholeSeconds(clock[5])) ELSE 0)

\* the fraction of a second, in nanoseconds
ClockNanos(clock) ==
    IF Len(clock) = 5 /\ DotPlace(clock[5]) # 0
    THEN Number(SecondFraction(clock[5])
                \o [i \in 1..(9 - Len(SecondFraction(clock[5]))) |-> "0"])
    ELSE 0

ClockValid(clock) ==
    \/ clock = <<>>
    \/ /\ Number(clock[1]) <= 23
       /\ Number(clock[3]) <= 59
       /\ Len(clock) = 5 => Number(WholeSeconds(clock[5])) <= 59

\* a token that names a month
IsMonth(t) == MonthOf(t) # 0

\* the date is one run of eight digits
Compact(date) == Len(date) = 1 /\ IsNumber(date[1]) /\ Len(date[1]) = 8

\* the shapes of the date; colon is 0 where no time of day follows
DateShape(date, colon) ==
    \/ Compact(date)
    \/ /\ Len(date) = 5 /\ Short(date[1], 4) /\ Short(date[3], 4) /\ Short(date[5], 4)
       /\ date[2] = date[4] /\ date[2] \in {<<"-">>, <<"/">>, <<".">>}
    \/ /\ Len(date) = 3 /\ Short(date[1], 4) /\ Short(date[3], 4)
       /\ date[2] \in {<<"-">>, <<"/">>}
       /\ colon = 0
    \/ /\ Len(date) = 5 /\ Short(date[1], 4) /\ IsMonth(date[3]) /\ Short(date[5], 4)
       /\ date[2] = date[4] /\ date[2] \in {<<" ">>, <<"-">>, <<"/">>}
    \/ /\ Len(date) \in {5, 6} /\ IsMonth(date[1]) /\ Short(date[3], 4)
       /\ Short(date[Len(date)], 4)
       /\ \/ Len(date) = 5 /\ date[2] = date[4] /\ date[2] \in {<<" ">>, <<"-">>, <<"/">>}
          \/ Len(date) = 6 /\ date[2] = <<" ">> /\ date[4] = <<",">> /\ date[5] = <<" ">>
    \/ /\ Len(date) = 3 /\ date[2] = <<" ">> /\ colon = 0
       /\ \/ IsMonth(date[1]) /\ Short(date[3], 4)
          \/ Short(date[1], 4) /\ IsMonth(date[3])

\* the places, among the tokens of the date, of the values read
DatePlaces(date) ==
    IF Compact(date) THEN <<1, 2, 3>>
    ELSE IF Len(date) = 6 THEN <<1, 3, 6>>
    ELSE IF Len(date) = 5 THEN <<1, 3, 5>>
    ELSE <<1, 3>>

\* the values read, in their order in the text
DateValues(date) ==
    IF Compact(date)
    THEN <<Number(SubSeq(date[1], 1, 4)), Number(SubSeq(date[1], 5, 6)),
           Number(SubSeq(date[1], 7, 8))>>
    ELSE [i \in DOMAIN DatePlaces(date) |->
            IF IsMonth(date[DatePlaces(date)[i]]) THEN MonthOf(date[DatePlaces(date)[i]])
            ELSE Number(date[DatePlaces(date)[i]])]

\* the values that are read as years
YearPlaces(date) ==
    {i \in DOMAIN DatePlaces(date) :
        IF Compact(date) THEN i = 1
        ELSE /\ ~IsMonth(date[DatePlaces(date)[i]])
             /\ IF date[2] \in {<<"-">>, <<"/">>, <<".">>}
                THEN Len(date[DatePlaces(date)[i]]) > 2
                ELSE DateValues(date)[i] > 100}

\* the value that is a month given by name, 0 for none
MonthPlace(date) ==
    IF \E i \in DOMAIN DatePlaces(date) : ~Compact(date) /\ IsMonth(date[DatePlaces(date)[i]])
    THEN CHOOSE i \in DOMAIN DatePlaces(date) : IsMonth(date[DatePlaces(date)[i]])
    ELSE 0

\* the Timestamp of what resolve_ymd gives: the first month and day where
\* the text gives none, the century of a year that is written without it,
\* an exception for a date or a time of day that does not exist or that
\* a Timestamp cannot hold
Checked(ymd, noYear, clock, today) ==
    IF /\ ClockValid(clock)
       /\ IsDate(IF ymd.year = -1 THEN 1
                 ELSE IF ymd.year < 100 /\ noYear THEN convertyear(ymd.year, today[1])
                 ELSE ymd.year,
                 IF ymd.month = -1 THEN 1 ELSE ymd.month,
                 IF ymd.day = -1 THEN 1 ELSE ymd.day)
       /\ InBounds(IF ymd.year = -1 THEN 1
                   ELSE IF ymd.year < 100 /\ noYear THEN convertyear(ymd.year, today[1])
                   ELSE ymd.year,
                   IF ymd.month = -1 THEN 1 ELSE ymd.month,
                   IF ymd.day = -1 THEN 1 ELSE ymd.day,
                   ClockSeconds(clock), ClockNanos(clock))
    THEN Timestamp(IF ymd.year = -1 THEN 1
                   ELSE IF ymd.year < 100 /\ noYear THEN convertyear(ymd.year, today[1])
                   ELSE ymd.year,
                   IF ymd.month = -1 THEN 1 ELSE ymd.month,
                   IF ymd.day = -1 THEN 1 ELSE ymd.day)
    ELSE Raises

\* the date of the values read, years being the places of those read as
\* years: two of them are an error
ReadDate(date, years, clock, today) ==
    IF Cardinality(years) > 1 THEN Raises
    ELSE Checked(resolve_ymd(DateValues(date),
                             IF years = {} THEN 0 ELSE CHOOSE i \in years : TRUE,
                             MonthPlace(date)),
                 years = {}, clock, today)

\* dateutil's parse on the tokens of a text with a digit
ParsedDate(tokens, date, clock, today) ==
    IF Len(date) = 1 /\ IsNumber(date[1]) /\ Len(date[1]) <= 4 /\ FirstColon(tokens) = 0
    THEN (IF Len(date[1]) = 4
          THEN Checked([year |-> Number(date[1]), month |-> 1, day |-> 1], FALSE, clock, today)
          ELSE Raises)
    ELSE IF /\ FirstColon(tokens) = 0 \/ ClockShape(tokens, clock)
            /\ DateShape(date, FirstColon(tokens))
    THEN ReadDate(date, YearPlaces(date), clock, today)
    ELSE CHOOSE outcome \in {} : TRUE

ParsedTokens(tokens, today) ==
    ParsedDate(tokens, DatePart(tokens), ClockPart(tokens), today)

\* pd.to_datetime(value, errors="raise", utc=False) on a text without blanks
\* around it, as pandas 2 with dateutil gives it on the day today of the
\* clock, <<year, month, day>>: pandas reads the clock for the texts "now"
\* and "today", and dateutil reads its year to give a year of two digits
\* its century.  The operator is defined
\*   - on a text without a digit: the texts pandas reads as NaT, the texts
\*     "now" and "today", and otherwise an exception, no year being given;
\*   - on a run of digits: eight are year, month and day, four are a year,
\*     fewer are no date;
\*   - on two or three numbers of up to four digits between two "-", two
\*     "/" or two ".", and on two between one "-" or "/";
\*   - on a month by name (dateutil's names, in any case) with one or two
\*     numbers, "31 Jan 2025", "31-Jan-2025", "January 31, 2025",
\*     "Jan 31 2025", "Jan-31-2025", "Jan 2025", "31 Jan";
\*   - on a date of three values or eight digits followed by " " or "T" and
\*     a time of day, hours:minutes, with seconds, with a fraction of them
\*     of up to nine digits after a ".", and with "Z" after it.
\* Any other text with a digit is outside the model: the operator has no
\* value on it.  A number is read as a year when it stands between "-",
\* "/" or "." with more than two digits, or elsewhere with a value over
\* 100; two such numbers are an error.
to_datetime(s, today) ==
    LET Word(w) == [i \in 1..Len(w) |-> SubSeq(w, i, i)]
    IN  IF ~HasDigit(s)
        THEN (IF s \in {Word("NaT"), Word("nat"), Word("NAT"),
                       Word("nan"), Word("NaN"), Word("NAN")} THEN NaT
              ELSE IF s \in {Word("now"), Word("today")}
              THEN Timestamp(today[1], today[2], today[3])
              ELSE Raises)
        ELSE ParsedTokens(DateTokens(s), today)

\* what parse_date returns for an outcome of pd.to_datetime (lines 140-150)
DateText(parsed) ==
    CASE parsed.k = "timestamp" -> Text(IsoFormat(parsed.year, parsed.month, parsed.day))
      [] parsed.k = "nat" -> Text(<<"N", "a", "T">>)
      [] OTHER -> None

\* casps_pipeline.parse_date on one cell: None for a missing, empty or blank
\* cell and for a value pd.to_datetime raises on, else the ISO text of the
\* date; NaT, which is a datetime, gives the text "NaT" (lines 148-149)
parse_date(cell, today) ==
    IF cell.k = "nan" \/ cell.k = "none" \/ cell = Text(<<>>) THEN None
    ELSE IF cell.k = "str"
    THEN (IF StrStrip(cell.v) = <<>> THEN None
          ELSE DateText(to_datetime(StrStrip(cell.v), today)))
    ELSE None

(* ------------------------- casps normaliser ---------------------------- *)

DATE_COLUMNS ==
    <<"ac_authorisation_notification_date", "ac_authorisation_end_date", "ac_lastupdate">>

\* re.match(r"([a-j])\.", part, re.IGNORECASE): under IGNORECASE the class
\* holds the ten letters in both cases and, their case folding meeting the
\* letter i, the dotted capital I and the dotless small i
ServiceCodeMatch(part) ==
    /\ Len(part) >= 2
    /\ part[2] = "."
    /\ \/ \E i \in 1..10 : part[1] \in {LowerAlpha[i], UpperAlpha[i]}
       \/ part[1] \in {"U+0130", "U+0131"}

\* one cleaned label of shorten_service_codes
CleanPart(part) ==
    IF ServiceCodeMatch(part)
    THEN ServiceGet(StrLower(<<part[1]>>), StrStrip(part))
    ELSE StrStrip(part)

RECURSIVE CleanedParts(_)
CleanedParts(parts) ==
    IF parts = <<>> THEN <<>>
    ELSE LET p == StrStrip(Head(parts))
         IN  (IF p = <<>> THEN <<>> ELSE <<CleanPart(p)>>) \o CleanedParts(Tail(parts))

RECURSIVE Dedupe(_, _)
\* list(dict.fromkeys(xs)): first occurrences, in order
Dedupe(xs, seen) ==
    IF xs = <<>> THEN <<>>
    ELSE IF Head(xs) \in seen THEN Dedupe(Tail(xs), seen)
    ELSE <<Head(xs)>> \o Dedupe(Tail(xs), seen \cup {Head(xs)})

RECURSIVE JoinWith(_, _)
\* sep.join(xs)
JoinWith(xs, sep) ==
    IF xs = <<>> THEN <<>>
    ELSE IF Len(xs) = 1 THEN xs[1]
    ELSE xs[1] \o sep \o JoinWith(Tail(xs), sep)

shorten_service_codes(cell) ==
    IF cell.k \in {"nan", "none"} \/ cell = Text(<<>>) THEN <<>>
    ELSE JoinWith(Dedupe(CleanedParts(SplitOn(PyStr(cell), "|", <<>>)), {}),
                  <<" ", "|", " ">>)

\* the columns normalize_casp_dataframe reads with df[...] after
\* normalize_columns; a frame without one of them raises KeyError
CaspRequiredColumns ==
    {"ae_competent_authority", "ae_home_member_state", "ae_lei_name",
     "ae_website", "ac_service_code"}

\* business_cols of normalize_casp_dataframe: the five fixed columns and then
\* each DATE_COLUMNS entry the frame carries
CaspBusinessCols(columns) ==
    <<"ae_competent_authority", "ae_home_member_state", "ae_lei_name",
      "ae_website", "ac_service_code_short">>
    \o SelectSeq(DATE_COLUMNS, LAMBDA c : c \in ListSet(columns))

\* a row of a normalized frame: its cells col, the column hash among them,
\* and its key and its digest as the store reads them
NormalRow(col, business_cols) ==
    [col |-> SetCell(col, "hash", Text(hash_row(col, business_cols))),
     pk |-> PyStr(col["pk"]),
     hash |-> hash_row(col, business_cols)]

\* the columns normalize_casp_dataframe assigns after the raw_ copies, in
\* the order of its assignments
CaspAssigned ==
    <<"ae_competent_authority", "ae_home_member_state", "ae_lei_name", "ae_website",
      "ac_service_code_short", "pk", "hash">>

\* the cells of one row after normalize_casp_dataframe but for its hash, r
\* being the row after the raw_ copies and columns its columns: the five
\* derived columns, parse_date on each DATE_COLUMNS entry the frame
\* carries, pk, and the other columns, the raw_ copies among them, as the
\* copies left them
CaspCol(columns, r, authority, state, name, today) ==
    [c \in (ListSet(columns) \cup ListSet(CaspAssigned)) \ {"hash"} |->
        CASE c = "ae_competent_authority" -> Text(authority)
          [] c = "ae_home_member_state" -> Text(state)
          [] c = "ae_lei_name" -> Text(name)
          [] c = "ae_website" -> Text(StrStrip(PyStr(r["ae_website"])))
          [] c = "ac_service_code_short" -> Text(shorten_service_codes(r["ac_service_code"]))
          [] c = "pk" -> Text(MakePk(state, authority, name))
          [] c \in {DATE_COLUMNS[i] : i \in DOMAIN DATE_COLUMNS} -> parse_date(r[c], today)
          [] OTHER -> r[c]]

\* the row of the stripped authority, the state and the stripped name
CaspDerivedRow(columns, r, authority, state, name, today) ==
    NormalRow(CaspCol(columns, r, authority, state, name, today), CaspBusinessCols(columns))

\* COUNTRY_MAP.get(x.upper(), x) on the stripped text of a cell
CaspState(code) == CountryGet(StrUpper(code), code)

\* one row of normalize_casp_dataframe, r being the row after the raw_
\* copies and columns its columns
CaspNormalRow(columns, r, today) ==
    CaspDerivedRow(columns, r,
                   StrStrip(PyStr(r["ae_competent_authority"])),
                   CaspState(StrStrip(PyStr(r["ae_home_member_state"]))),
                   StrStrip(PyStr(r["ae_lei_name"])),
                   today)

\* normalize_casp_dataframe after its first line, n being the frame that
\* normalize_columns gives
CaspRows(n, today) ==
    [columns |-> WithColumns(RawColumns(n.columns), CaspAssigned),
     rows |-> [i \in DOMAIN n.rows |->
                 CaspNormalRow(RawColumns(n.columns),
                               RawCopies(n.columns, n.rows[i]), today)]]

\* normalize_casp_dataframe(df) on the day today of the clock, for a frame
\* whose headers do not collide and which carries the required columns
normalize_casp_dataframe(df, today) == CaspRows(normalize_columns(df), today)

(* --------------------- non_compliant normaliser ------------------------ *)

\* pick_column(df, *candidates, default=""), for one row of the frame
pick_column(columns, r, candidates) ==
    IF \E i \in DOMAIN candidates : candidates[i] \in ListSet(columns)
    THEN r[candidates[CHOOSE i \in DOMAIN candidates :
                        /\ candidates[i] \in ListSet(columns)
                        /\ \A j \in 1..(i - 1) : candidates[j] \notin ListSet(columns)]]
    ELSE Text(<<>>)

normalise_country(value) ==
    LET upper == StrUpper(value)
    IN  IF upper \in {<<>>, <<"N", "A", "N">>, <<"N", "O", "N", "E">>, <<"N", "U", "L", "L">>}
        THEN <<>>
        ELSE CountryGet(upper, value)

NonCompliantBusinessCols ==
    <<"ae_competent_authority", "ae_home_member_state", "ae_lei_name",
      "ae_website", "is_new_flag">>

\* the columns normalize_non_compliant_dataframe assigns after the raw_
\* copies, in the order of its assignments
NonCompliantAssigned ==
    <<"ae_competent_authority", "ae_home_member_state", "ae_lei_name", "ae_website",
      "is_new_flag", "pk", "hash">>

\* the cells of one row after normalize_non_compliant_dataframe but for its
\* hash, r being the row after the raw_ copies and columns its columns
NonCompliantCol(columns, r, authority, state, name) ==
    [c \in (ListSet(columns) \cup ListSet(NonCompliantAssigned)) \ {"hash"} |->
        CASE c = "ae_competent_authority" -> Text(authority)
          [] c = "ae_home_member_state" -> Text(state)
          [] c = "ae_lei_name" -> Text(name)
          [] c = "ae_website" ->
                Text(StrStrip(PyStr(pick_column(columns, r, <<"ae_website", "website">>))))
          [] c = "is_new_flag" ->
                Flag(IF "column_1" \in ListSet(columns)
                     THEN StrLower(StrStrip(PyStr(r["column_1"]))) = <<"n", "e", "w">>
                     ELSE FALSE)
          [] c = "pk" -> Text(MakePk(state, authority, name))
          [] OTHER -> r[c]]

NonCompliantDerivedRow(columns, r, authority, state, name) ==
    NormalRow(NonCompliantCol(columns, r, authority, state, name), NonCompliantBusinessCols)

\* one row of normalize_non_compliant_dataframe, r being the row after the
\* raw_ copies and columns its columns
NonCompliantNormalRow(columns, r) ==
    NonCompliantDerivedRow(columns, r,
        StrStrip(PyStr(pick_column(columns, r,
            <<"ae_competent_authority", "ae_competentauthority", "competent_authority">>))),
        normalise_country(StrStrip(PyStr(pick_column(columns, r,
            <<"ae_home_member_state", "ae_homememberstate", "member_state">>)))),
        StrStrip(PyStr(pick_column(columns, r, <<"ae_lei_name", "commercial_name">>))))

\* normalize_non_compliant_dataframe after its first line, up to the
\* filter, n being the frame that normalize_columns gives
NonCompliantRows(n) ==
    [columns |-> WithColumns(RawColumns(n.columns), NonCompliantAssigned),
     rows |-> [i \in DOMAIN n.rows |->
                 NonCompliantNormalRow(RawColumns(n.columns),
                                       RawCopies(n.columns, n.rows[i]))]]

\* df = df[df["ae_lei_name"].astype(bool)]
NamedRows(frame) ==
    [columns |-> frame.columns,
     rows |-> SelectSeq2(frame.rows,
                         [i \in DOMAIN frame.rows |->
                             frame.rows[i].col["ae_lei_name"].v # <<>>])]

\* normalize_non_compliant_dataframe(df), for a frame whose headers do not
\* collide
normalize_non_compliant_dataframe(df) == NamedRows(NonCompliantRows(normalize_columns(df)))
(* ----------------------- change-detection store ------------------------ *)
(* A persisted table is the sequence of its rows [pk, hash] in rowid        *)
(* order, with pairwise distinct pk (pk TEXT PRIMARY KEY).                  *)

Datasets == {"casps", "non_compliant"}

\* df[["pk", "hash"]].to_dict("records")
Records(df) == [i \in DOMAIN df.rows |-> [pk |-> df.rows[i].pk, hash |-> df.rows[i].hash]]

\* the keys of a table or of a batch of records
Keys(rs) == {rs[i].pk : i \in DOMAIN rs}

\* the (pk, hash) pairs of a table or of a batch of records
Pairs(rs) == {<<rs[i].pk, rs[i].hash>> : i \in DOMAIN rs}

\* existing[pk], for pk in existing
ExistingHash(t, pk) == t[CHOOSE i \in DOMAIN t : t[i].pk = pk].hash

RECURSIVE ClassifyNew(_, _)
\* the list `new` of the classification loop: one append per record whose
\* key is not in existing
ClassifyNew(recs, t) ==
    IF recs = <<>> THEN <<>>
    ELSE (IF Head(recs).pk \notin Keys(t) THEN <<Head(recs).pk>> ELSE <<>>)
         \o ClassifyNew(Tail(recs), t)

\* a classification loop without the comparison of the hashes
ClassifyUpdatedAnyHit(recs, t) ==
    LET hit == SelectSeq(recs, LAMBDA r : r.pk \in Keys(t))
    IN  [i \in DOMAIN hit |-> hit[i].pk]

RECURSIVE ClassifyUpdated(_, _)
\* the list `updated` of the classification loop: one append per record whose
\* key is in existing with another hash
ClassifyUpdated(recs, t) ==
    IF recs = <<>> THEN <<>>
    ELSE (IF Head(recs).pk \in Keys(t) /\ ExistingHash(t, Head(recs).pk) # Head(recs).hash
          THEN <<Head(recs).pk>> ELSE <<>>)
         \o ClassifyUpdated(Tail(recs), t)

\* removed = [pk for pk in existing.keys() if pk not in seen]
ClassifyRemoved(recs, t) ==
    LET gone == SelectSeq(t, LAMBDA r : r.pk \notin Keys(recs))
    IN  [i \in DOMAIN gone |-> gone[i].pk]

Classify(recs, t) ==
    [new |-> ClassifyNew(recs, t),
     updated |-> ClassifyUpdated(recs, t),
     removed |-> ClassifyRemoved(recs, t)]

\* INSERT OR IGNORE of one row: a row with the same pk is kept
InsertOrIgnore(t, rec) == IF rec.pk \in Keys(t) THEN t ELSE Append(t, rec)

\* INSERT OR REPLACE of one row: a row with the same pk is deleted and the
\* new row gets the next rowid
InsertOrReplace(t, rec) == Append(SelectSeq(t, LAMBDA r : r.pk # rec.pk), rec)

RECURSIVE UpsertMany(_, _)
\* conn.executemany("INSERT OR REPLACE ...", records)
UpsertMany(t, recs) ==
    IF recs = <<>> THEN t
    ELSE UpsertMany(InsertOrReplace(t, Head(recs)), Tail(recs))

\* a commit without the DELETE statements
DeleteManySkipped(t, removed) == t

\* conn.executemany("DELETE FROM ... WHERE pk = ?", removed)
DeleteMany(t, removed) ==
    SelectSeq(t, LAMBDA r : \A i \in DOMAIN removed : removed[i] # r.pk)

\* esma_common.diff_against_state: classification, upserts and deletes in
\* one transaction; t is the content of the named table
esma_diff_against_state(df, t) ==
    LET d == Classify(Records(df), t)
    IN  [diff |-> d, table |-> DeleteMany(UpsertMany(t, Records(df)), d.removed)]

\* casps_pipeline.diff_against_state: classification and upserts
casps_diff_against_state(df, t) ==
    [diff |-> Classify(Records(df), t), table |-> UpsertMany(t, Records(df))]

\* the store each pipeline's run() calls
diff_against_state(dataset, df, t) ==
    IF dataset = "casps" THEN casps_diff_against_state(df, t)
    ELSE esma_diff_against_state(df, t)

EmptyDiff == [new |-> <<>>, updated |-> <<>>, removed |-> <<>>]

(* ------------------------------ publisher ------------------------------ *)

EmptyFcn == [k \in {} |-> 0]

\* the rows of a frame restricted to the export columns; the renaming of the
\* columns is written out in the field names
NonCompliantExportRow(r) ==
    [pk |-> Text(r.pk),
     competent_authority |-> r.col["ae_competent_authority"],
     home_member_state |-> r.col["ae_home_member_state"],
     lei_name |-> r.col["ae_lei_name"],
     website |-> r.col["ae_website"],
     is_new |-> r.col["is_new_flag"]]

build_export_dataframe(df) == [i \in DOMAIN df.rows |-> NonCompliantExportRow(df.rows[i])]

\* a row of export_df of write_outputs: the six fixed columns, renamed, and
\* each DATE_COLUMNS entry the frame carries, under its own name
CaspExportRow(columns, r) ==
    [pk |-> Text(r.pk),
     competent_authority |-> r.col["ae_competent_authority"],
     home_member_state |-> r.col["ae_home_member_state"],
     lei_name |-> r.col["ae_lei_name"],
     website |-> r.col["ae_website"],
     service_codes |-> r.col["ac_service_code_short"]]
    @@ [c \in {DATE_COLUMNS[i] : i \in DOMAIN DATE_COLUMNS} \cap ListSet(columns) |-> r.col[c]]

\* export_df of write_outputs
CaspExport(df) == [i \in DOMAIN df.rows |-> CaspExportRow(df.columns, df.rows[i])]

\* the three output files of a dataset: <dataset>.csv, <dataset>.json and
\* <dataset>_delta.csv
FileNames == {"csv", "json", "delta"}

\* the order in which backup_existing_outputs goes through them
FileOrder == <<"csv", "json", "delta">>

NoData == [format |-> "none", rows |-> <<>>]
NoFile == [exists |-> FALSE, complete |-> FALSE, data |-> NoData]
\* a file opened for writing (truncated) whose write did not finish
TruncatedFile == [exists |-> TRUE, complete |-> FALSE, data |-> NoData]
WholeFile(data) == [exists |-> TRUE, complete |-> TRUE, data |-> data]

CsvData(export) == [format |-> "csv", rows |-> export]
JsonData(export) == [format |-> "json", rows |-> export]

\* the delta manifest: one record per entry of new, then updated, then removed
DeltaRecords(diff) ==
    [i \in DOMAIN diff.new |-> [pk |-> diff.new[i], action |-> "new"]]
    \o [i \in DOMAIN diff.updated |-> [pk |-> diff.updated[i], action |-> "update"]]
    \o [i \in DOMAIN diff.removed |-> [pk |-> diff.removed[i], action |-> "remove"]]

DeltaData(diff) == [format |-> "delta", rows |-> DeltaRecords(diff)]

\* dest_dir.rmdir() if dest_dir.exists() and not any(dest_dir.iterdir()):
\* the directory of this timestamp is removed when it holds no file
RemoveEmptyDir(dirs, timestamp) ==
    IF timestamp \in DOMAIN dirs /\ \A f \in FileNames : ~dirs[timestamp][f].exists
    THEN [t \in DOMAIN dirs \ {timestamp} |-> dirs[t]]
    ELSE dirs

\* backup_existing_outputs without the copy of the delta manifest
backup_existing_outputsNoDelta(dirs, files, timestamp) ==
    IF \A f \in FileNames : ~files[f].exists THEN RemoveEmptyDir(dirs, timestamp)
    ELSE LET old == IF timestamp \in DOMAIN dirs THEN dirs[timestamp]
                    ELSE [f \in FileNames |-> NoFile]
             dir == [f \in FileNames |->
                        IF files[f].exists /\ f # "delta" THEN files[f] ELSE old[f]]
         IN  [t \in DOMAIN dirs \cup {timestamp} |-> IF t = timestamp THEN dir ELSE dirs[t]]

\* backup_existing_outputs: every existing output file is copied into
\* BACKUP_DIR/<dataset>/<timestamp>, over a file of that name already there;
\* when there is none to copy, an empty directory of that timestamp is
\* removed.  dirs maps the timestamps of the dataset's backup directories to
\* their files
backup_existing_outputs(dirs, files, timestamp) ==
    IF \A f \in FileNames : ~files[f].exists THEN RemoveEmptyDir(dirs, timestamp)
    ELSE LET old == IF timestamp \in DOMAIN dirs THEN dirs[timestamp]
                    ELSE [f \in FileNames |-> NoFile]
             dir == [f \in FileNames |-> IF files[f].exists THEN files[f] ELSE old[f]]
         IN  [t \in DOMAIN dirs \cup {timestamp} |-> IF t = timestamp THEN dir ELSE dirs[t]]

(* -------------------------- metadata document -------------------------- *)
(* A JSON value as json.loads yields it, tagged with its kind.  A number    *)
(* with a fraction or an exponent is kept as the text repr() gives it.  An  *)
(* object is the sequence of its <<key, value>> pairs in insertion order,   *)
(* as a Python dict keeps them.                                             *)

JNull == [k |-> "null", v |-> <<>>]
JBool(b) == [k |-> "bool", v |-> b]
JInt(n) == [k |-> "int", v |-> n]
JFloat(repr) == [k |-> "float", v |-> repr]
JString(s) == [k |-> "str", v |-> s]
JList(items) == [k |-> "list", v |-> items]
JDict(pairs) == [k |-> "dict", v |-> pairs]

EmptyDict == JDict(<<>>)

\* key in d
Has(d, key) == \E i \in DOMAIN d.v : d.v[i][1] = key

\* d.get(key)
Get(d, key) ==
    IF Has(d, key) THEN d.v[CHOOSE i \in DOMAIN d.v : d.v[i][1] = key][2] ELSE JNull

\* d[key] = value: a key the dict has keeps its place
Put(d, key, value) ==
    IF Has(d, key)
    THEN JDict([i \in DOMAIN d.v |-> IF d.v[i][1] = key THEN <<key, value>> ELSE d.v[i]])
    ELSE JDict(Append(d.v, <<key, value>>))

DictKeys(d) == {d.v[i][1] : i \in DOMAIN d.v}

\* the pairs of d whose key is not in ks, in order
RECURSIVE WithoutFrom(_, _)
WithoutFrom(pairs, ks) ==
    IF pairs = <<>> THEN <<>>
    ELSE (IF Head(pairs)[1] \in ks THEN <<>> ELSE <<Head(pairs)>>)
         \o WithoutFrom(Tail(pairs), ks)

Without(d, ks) == JDict(WithoutFrom(d.v, ks))

\* a value without the order of the keys of its objects: two values are
\* equal as Python compares dicts when they agree on this
RECURSIVE AsMap(_)
AsMap(value) ==
    CASE value.k = "dict" ->
            [k |-> "dict", v |-> [key \in DictKeys(value) |-> AsMap(Get(value, key))]]
      [] value.k = "list" ->
            [k |-> "list", v |-> [i \in DOMAIN value.v |-> AsMap(value.v[i])]]
      [] OTHER -> value

\* bool(value)
Truthy(value) ==
    CASE value.k = "null" -> FALSE
      [] value.k = "bool" -> value.v
      [] value.k = "int" -> value.v # 0
      [] value.k = "float" -> value.v \notin {"0.0", "-0.0"}
      [] value.k = "str" -> value.v # ""
      [] OTHER -> value.v # <<>>

\* s has the character c
RECURSIVE HasChar(_, _)
HasChar(s, c) == s # "" /\ (Head(s) = c \/ HasChar(Tail(s), c))

\* the characters of Latin-1 a string of the model can hold, each with its
\* code point: a JSON string of the model is a string of these characters
LatinCodes ==
    <<"", 1,  "", 2,  "", 3,  "", 4,  "", 5,  "", 6,  "", 7,  "", 8,
      "\t", 9,  "\n", 10,  "", 11,  "\f", 12,  "\r", 13,  "", 14,  "", 15,  "", 16,
      "", 17,  "", 18,  "", 19,  "", 20,  "", 21,  "", 22,  "", 23,  "", 24,
      "", 25,  "", 26,  "", 27,  "", 28,  "", 29,  "", 30,  "", 31,  " ", 32,
      "!", 33,  "\"", 34,  "#", 35,  "$", 36,  "%", 37,  "&", 38,  "'", 39,  "(", 40,
      ")", 41,  "*", 42,  "+", 43,  ",", 44,  "-", 45,  ".", 46,  "/", 47,  "0", 48,
      "1", 49,  "2", 50,  "3", 51,  "4", 52,  "5", 53,  "6", 54,  "7", 55,  "8", 56,
      "9", 57,  ":", 58,  ";", 59,  "<", 60,  "=", 61,  ">", 62,  "?", 63,  "@", 64,
      "A", 65,  "B", 66,  "C", 67,  "D", 68,  "E", 69,  "F", 70,  "G", 71,  "H", 72,
      "I", 73,  "J", 74,  "K", 75,  "L", 76,  "M", 77,  "N", 78,  "O", 79,  "P", 80,
      "Q", 81,  "R", 82,  "S", 83,  "T", 84,  "U", 85,  "V", 86,  "W", 87,  "X", 88,
      "Y", 89,  "Z", 90,  "[", 91,  "\\", 92,  "]", 93,  "^", 94,  "_", 95,  "a", 97,
      "b", 98,  "c", 99,  "d", 100,  "e", 101,  "f", 102,  "g", 103,  "h", 104,  "i", 105,
      "j", 106,  "k", 107,  "l", 108,  "m", 109,  "n", 110,  "o", 111,  "p", 112,  "q", 113,
      "r", 114,  "s", 115,  "t", 116,  "u", 117,  "v", 118,  "w", 119,  "x", 120,  "y", 121,
      "z", 122,  "{", 123,  "|", 124,  "}", 125,  "~", 126,  "", 127,  "", 128,  "", 129,
      "", 130,  "", 131,  "", 132,  "", 133,  "", 134,  "", 135,  "", 136,  "", 137,
      "", 138,  "", 139,  "", 140,  "", 141,  "", 142,  "", 143,  "", 144,  "", 145,
      "", 146,  "", 147,  "", 148,  "", 149,  "", 150,  "", 151,  "", 152,  "", 153,
      "", 154,  "", 155,  "", 156,  "", 157,  "", 158,  "", 159,  " ", 160,  "¡", 161,
      "¢", 162,  "£", 163,  "¤", 164,  "¥", 165,  "¦", 166,  "§", 167,  "¨", 168,  "©", 169,
      "ª", 170,  "«", 171,  "¬", 172,  "­", 173,  "®", 174,  "¯", 175,  "°", 176,  "±", 177,
      "²", 178,  "³", 179,  "´", 180,  "µ", 181,  "¶", 182,  "·", 183,  "¸", 184,  "¹", 185,
      "º", 186,  "»", 187,  "¼", 188,  "½", 189,  "¾", 190,  "¿", 191,  "À", 192,  "Á", 193,
      "Â", 194,  "Ã", 195,  "Ä", 196,  "Å", 197,  "Æ", 198,  "Ç", 199,  "È", 200,  "É", 201,
      "Ê", 202,  "Ë", 203,  "Ì", 204,  "Í", 205,  "Î", 206,  "Ï", 207,  "Ð", 208,  "Ñ", 209,
      "Ò", 210,  "Ó", 211,  "Ô", 212,  "Õ", 213,  "Ö", 214,  "×", 215,  "Ø", 216,  "Ù", 217,
      "Ú", 218,  "Û", 219,  "Ü", 220,  "Ý", 221,  "Þ", 222,  "ß", 223,  "à", 224,  "á", 225,
      "â", 226,  "ã", 227,  "ä", 228,  "å", 229,  "æ", 230,  "ç", 231,  "è", 232,  "é", 233,
      "ê", 234,  "ë", 235,  "ì", 236,  "í", 237,  "î", 238,  "ï", 239,  "ð", 240,  "ñ", 241,
      "ò", 242,  "ó", 243,  "ô", 244,  "õ", 245,  "ö", 246,  "÷", 247,  "ø", 248,  "ù", 249,
      "ú", 250,  "û", 251,  "ü", 252,  "ý", 253,  "þ", 254,  "ÿ", 255>>

LatinChars == {LatinCodes[2 * i - 1] : i \in 1..(Len(LatinCodes) \div 2)}

\* ord(c), for a character of LatinChars; a character outside has no code
\* in the model, and the text of a string that holds one has no value
Ord ==
    [c \in LatinChars |->
        LatinCodes[1 + CHOOSE i \in {2 * k - 1 : k \in 1..(Len(LatinCodes) \div 2)} :
                          LatinCodes[i] = c]]

\* chr(code).isprintable(), in Latin-1
IsPrintable(code) == code \in (32..126) \cup (161..172) \cup (174..255)

LowerHex == "0123456789abcdef"

\* "%02x" % code
Hex2(code) ==
    SubSeq(LowerHex, (code \div 16) + 1, (code \div 16) + 1)
    \o SubSeq(LowerHex, (code % 16) + 1, (code % 16) + 1)

\* the characters of s as repr() writes them between the quotes q: the
\* quote and the backslash behind a backslash, \t, \n and \r by their
\* letter, any other character that is not printable as \xNN
RECURSIVE Escaped(_, _)
Escaped(s, q) ==
    IF s = "" THEN ""
    ELSE (CASE Head(s) = q -> "\\" \o q
            [] Head(s) = "\\" -> "\\\\"
            [] Head(s) = "\t" -> "\\t"
            [] Head(s) = "\n" -> "\\n"
            [] Head(s) = "\r" -> "\\r"
            [] OTHER -> IF IsPrintable(Ord[Head(s)]) THEN Head(s)
                        ELSE "\\x" \o Hex2(Ord[Head(s)]))
         \o Escaped(Tail(s), q)

\* repr() of a str: double quotes when it has a single quote and no double one
ReprString(s) ==
    IF HasChar(s, "'") /\ ~HasChar(s, "\"")
    THEN "\"" \o Escaped(s, "\"") \o "\""
    ELSE "'" \o Escaped(s, "'") \o "'"

\* repr(value)
RECURSIVE ReprOf(_)
RECURSIVE ReprItems(_)
RECURSIVE ReprPairs(_)
ReprOf(value) ==
    CASE value.k = "null" -> "None"
      [] value.k = "bool" -> (IF value.v THEN "True" ELSE "False")
      [] value.k = "int" -> ToString(value.v)
      [] value.k = "float" -> value.v
      [] value.k = "str" -> ReprString(value.v)
      [] value.k = "list" -> "[" \o ReprItems(value.v) \o "]"
      [] OTHER -> "{" \o ReprPairs(value.v) \o "}"

ReprItems(items) ==
    IF items = <<>> THEN ""
    ELSE ReprOf(Head(items))
         \o (IF Tail(items) = <<>> THEN "" ELSE ", " \o ReprItems(Tail(items)))

ReprPairs(pairs) ==
    IF pairs = <<>> THEN ""
    ELSE ReprString(Head(pairs)[1]) \o ": " \o ReprOf(Head(pairs)[2])
         \o (IF Tail(pairs) = <<>> THEN "" ELSE ", " \o ReprPairs(Tail(pairs)))

\* str(value)
StrOf(value) == IF value.k = "str" THEN value.v ELSE ReprOf(value)

\* n blanks
RECURSIVE Blanks(_)
Blanks(n) == IF n = 0 THEN "" ELSE " " \o Blanks(n - 1)

\* the characters of s as json.dumps writes them between double quotes, with
\* ensure_ascii as json.dumps has it by default: the quote and the
\* backslash behind a backslash, \b, \f, \n, \r and \t by their letter, any
\* other character outside " " .. "~" as \u00NN
RECURSIVE JsonEscaped(_)
JsonEscaped(s) ==
    IF s = "" THEN ""
    ELSE (CASE Head(s) = "\"" -> "\\\""
            [] Head(s) = "\\" -> "\\\\"
            [] Head(s) = "\t" -> "\\t"
            [] Head(s) = "\n" -> "\\n"
            [] Head(s) = "\r" -> "\\r"
            [] Head(s) = "\f" -> "\\f"
            [] OTHER -> IF Ord[Head(s)] = 8 THEN "\\b"
                        ELSE IF Ord[Head(s)] \in 32..126 THEN Head(s)
                        ELSE "\\u00" \o Hex2(Ord[Head(s)]))
         \o JsonEscaped(Tail(s))

\* json.dumps(value, indent=2), for a value that stands level objects or
\* lists deep: each item of a list and each pair of an object on a line of
\* its own, two blanks deeper than the bracket that opens it
RECURSIVE json_dumps(_, _)
RECURSIVE JsonItems(_, _)
RECURSIVE JsonPairs(_, _)
json_dumps(value, level) ==
    CASE value.k = "null" -> "null"
      [] value.k = "bool" -> (IF value.v THEN "true" ELSE "false")
      [] value.k = "int" -> ToString(value.v)
      [] value.k = "float" ->
            (CASE value.v = "nan" -> "NaN"
               [] value.v = "inf" -> "Infinity"
               [] value.v = "-inf" -> "-Infinity"
               [] OTHER -> value.v)
      [] value.k = "str" -> "\"" \o JsonEscaped(value.v) \o "\""
      [] value.k = "list" ->
            (IF value.v = <<>> THEN "[]"
             ELSE "[\n" \o JsonItems(value.v, level + 1) \o "\n" \o Blanks(2 * level) \o "]")
      [] OTHER ->
            (IF value.v = <<>> THEN "{}"
             ELSE "{\n" \o JsonPairs(value.v, level + 1) \o "\n" \o Blanks(2 * level) \o "}")

JsonItems(items, level) ==
    Blanks(2 * level) \o json_dumps(Head(items), level)
    \o (IF Tail(items) = <<>> THEN "" ELSE ",\n" \o JsonItems(Tail(items), level))

JsonPairs(pairs, level) ==
    Blanks(2 * level) \o "\"" \o JsonEscaped(Head(pairs)[1]) \o "\": "
    \o json_dumps(Head(pairs)[2], level)
    \o (IF Tail(pairs) = <<>> THEN "" ELSE ",\n" \o JsonPairs(Tail(pairs), level))

\* an instant of the clock: the whole seconds since 1970-01-01T00:00:00Z
\* and the microseconds of the second under way
Instant(second, micro) == [second |-> second, micro |-> micro]

\* the instant micros microseconds after t
After(t, micros) ==
    Instant(t.second + ((t.micro + micros) \div 1000000), (t.micro + micros) % 1000000)

\* a is not later than b
NotAfter(a, b) == a.second < b.second \/ (a.second = b.second /\ a.micro <= b.micro)

\* the year, month and day of a day given by its year y counted from a
\* first of March, its day doy of that year and the month mp it falls in,
\* counted from March
CivilMonth(y, doy, mp) ==
    <<IF mp < 10 THEN y ELSE y + 1,
      IF mp < 10 THEN mp + 3 ELSE mp - 9,
      doy - ((153 * mp + 2) \div 5) + 1>>

CivilDay(y, doy) == CivilMonth(y, doy, (5 * doy + 2) \div 153)

CivilYear(era, doe, yoe) ==
    CivilDay(yoe + era * 400, doe - (365 * yoe + (yoe \div 4) - (yoe \div 100)))

\* the date of day doe of the 400 years era, both counted from 0000-03-01
CivilEra(era, doe) ==
    CivilYear(era, doe, (doe - (doe \div 1460) + (doe \div 36524) - (doe \div 146096)) \div 365)

\* the date, in the Gregorian calendar, of the day days after 1970-01-01
CivilFromDays(days) == CivilEra((days + 719468) \div 146097, (days + 719468) % 146097)

\* datetime.now(timezone.utc).date() at the instant t
UtcDate(t) == CivilFromDays(t.second \div 86400)

\* the number n in width digits
RECURSIVE Padded(_, _)
Padded(n, width) == IF width = 0 THEN "" ELSE Padded(n \div 10, width - 1) \o ToString(n % 10)

\* "%H", "%M" and "%S" of the second sod of a day, with sep between them
ClockText(sod, sep) ==
    Padded(sod \div 3600, 2) \o sep \o Padded((sod % 3600) \div 60, 2)
    \o sep \o Padded(sod % 60, 2)

\* "%Y", "%m" and "%d" of a date, with sep between them
DayText(date, sep) ==
    Padded(date[1], 4) \o sep \o Padded(date[2], 2) \o sep \o Padded(date[3], 2)

\* datetime.now(timezone.utc).isoformat().replace("+00:00", "Z") at the
\* instant t: isoformat() writes the microseconds when they are not zero
IsoInstant(t) ==
    DayText(UtcDate(t), "-") \o "T" \o ClockText(t.second % 86400, ":")
    \o (IF t.micro = 0 THEN "" ELSE "." \o Padded(t.micro, 6)) \o "Z"

\* datetime.now(timezone.utc).strftime("%Y%m%d%H%M%SZ") at the instant t
strftime(t) == DayText(UtcDate(t), "") \o ClockText(t.second % 86400, "") \o "Z"

\* meta.json: doc is what json.loads makes of it
NoMeta == [exists |-> FALSE, parsable |-> FALSE, doc |-> EmptyDict]
\* meta.json cut short by an unfinished write_text: json.loads raises on it
TruncatedMeta == [exists |-> TRUE, parsable |-> FALSE, doc |-> EmptyDict]
MetaFile(doc) == [exists |-> TRUE, parsable |-> TRUE, doc |-> doc]

CountKeys == {"total_rows", "new_rows", "updated_rows", "removed_rows"}

\* the counts write_dataset and write_outputs record, in their order
RunCounts(total, diff) ==
    <<<<"total_rows", JInt(total)>>, <<"new_rows", JInt(Len(diff.new))>>,
      <<"updated_rows", JInt(Len(diff.updated))>>, <<"removed_rows", JInt(Len(diff.removed))>>>>

\* the flat document write_outputs writes over meta.json
CaspMetadata(total, diff, timestamp) ==
    JDict(<<<<"generated_at", JString(IsoInstant(timestamp))>>, <<"source", JString("casps")>>>>
          \o RunCounts(total, diff))

\* the dict write_dataset hands to update_meta: the counts and meta_extra
DatasetMeta(total, diff, url) ==
    JDict(RunCounts(total, diff) \o <<<<"source_url", JString(url)>>>>)

\* a migration that keeps the legacy document's counts and drops its other
\* fields
LegacyEntriesCountsOnly(raw, source) ==
    IF Has(raw, "source") /\ DictKeys(raw) \cap CountKeys # {}
    THEN LET dataset_name ==
                StrOf(IF Truthy(Get(raw, "source")) THEN Get(raw, "source") ELSE JString(source))
         IN  JDict(<<<<dataset_name,
                       Put(Without(raw, (DictKeys(raw) \ CountKeys) \cup {dataset_name}),
                           "source", JString(dataset_name))>>>>)
    ELSE EmptyDict

\* existing, after the legacy branch of update_meta: a document with a
\* "source" key, whatever its value, and one of the count keys is taken for
\* the flat document of the dataset str(raw.get("source") or source), and
\* its other pairs become the entry of that dataset
LegacyEntries(raw, source) ==
    IF Has(raw, "source") /\ DictKeys(raw) \cap CountKeys # {}
    THEN LET dataset_name ==
                StrOf(IF Truthy(Get(raw, "source")) THEN Get(raw, "source") ELSE JString(source))
         IN  JDict(<<<<dataset_name,
                       Put(Without(raw, {dataset_name, "source"}),
                           "source", JString(dataset_name))>>>>)
    ELSE EmptyDict

\* a merge that keeps no entry of the document read
KeyedEntriesDropped(raw, existing) == existing

\* existing, after the loop over the pairs of the document read: each
\* top-level key whose value is an object with a "source" key is an entry
RECURSIVE KeyedFrom(_, _)
KeyedFrom(pairs, existing) ==
    IF pairs = <<>> THEN existing
    ELSE LET key == Head(pairs)[1]
             value == Head(pairs)[2]
         IN  KeyedFrom(Tail(pairs),
                       IF value.k = "dict" /\ Has(value, "source")
                       THEN Put(existing, key, value) ELSE existing)

KeyedEntries(raw, existing) == KeyedFrom(raw.v, existing)

\* update_meta(source, metadata): the new content of meta.json, from the
\* file it finds and the instant of the clock
update_meta(source, metadata, file, timestamp) ==
    LET sourced == Put(metadata, "source", JString(source))
        \* metadata.setdefault("generated_at", ...)
        entry == IF Has(sourced, "generated_at") THEN sourced
                 ELSE Put(sourced, "generated_at", JString(IsoInstant(timestamp)))
        \* a missing file and a JSONDecodeError both leave raw empty
        raw == IF file.exists /\ file.parsable THEN file.doc ELSE EmptyDict
        existing == IF raw.k = "dict" THEN KeyedEntries(raw, LegacyEntries(raw, source))
                    ELSE EmptyDict
    IN  MetaFile(Put(existing, source, entry))

(* ------------------------------ sources -------------------------------- *)
DE == <<"D", "E">>
BaFin == <<"B", "a", "F", "i", "n">>
AlphaCo == <<"A", "l", "p", "h", "a", "C", "o">>
BetaCo == <<"B", "é", "t", "a", "C", "o">>
OldExample == <<"o", "l", "d", ".", "e", "x", "a", "m", "p", "l", "e">>
NewExample == <<"n", "e", "w", ".", "e", "x", "a", "m", "p", "l", "e">>
BetaExample == <<"b", "e", "t", "a", ".", "e", "x", "a", "m", "p", "l", "e">>
Custody == <<"a", ".", " ", "C", "u", "s", "t", "o", "d", "y">>
NewMark == <<"N", "e", "w">>
Note1 == <<"n", "1">>
Note2 == <<"n", "2">>
January31 == <<"3", "1", "/", "0", "1", "/", "2", "0", "2", "5">>
January31Iso == <<"2", "0", "2", "5", "-", "1", "-", "3", "1">>
\* the same values as a register pads and cases them
PaddedFR == <<"f", "r", " ">>
PaddedAMF == <<" ", "A", "M", "F", "U+00A0">>

\* a row of the casps register as the Tabular Reader yields it
CaspRow(state, authority, name, website, service, comments, updated) ==
    [c \in ListSet(CaspColumns) |->
        CASE c = CompetentAuthorityHeader -> authority
          [] c = HomeMemberStateHeader -> state
          [] c = LeiNameHeader -> name
          [] c = WebsiteHeader -> website
          [] c = ServiceCodeHeader -> service
          [] c = LastUpdateHeader -> updated
          [] OTHER -> comments]

\* a row of the non-compliant register as the Tabular Reader yields it
NonCompliantRow(state, authority, name, website, mark, comments) ==
    [c \in ListSet(NonCompliantColumns) |->
        CASE c = CompetentAuthorityHeader -> authority
          [] c = HomeMemberStateHeader -> state
          [] c = LeiNameHeader -> name
          [] c = WebsiteHeader -> website
          [] c = MarkHeader -> mark
          [] OTHER -> comments]

Frame(columns, rows) == [columns |-> columns, rows |-> rows]

AlphaOld(d) ==
    IF d = "casps"
    THEN CaspRow(Text(DE), Text(BaFin), Text(AlphaCo), Text(OldExample), Text(Custody), Text(Note1),
                 Text(January31))
    ELSE NonCompliantRow(Text(DE), Text(BaFin), Text(AlphaCo), Text(OldExample), NaN, Text(Note1))

AlphaNew(d) ==
    IF d = "casps"
    THEN CaspRow(Text(DE), Text(BaFin), Text(AlphaCo), Text(NewExample), Text(Custody), Text(Note1),
                 Text(January31))
    ELSE NonCompliantRow(Text(DE), Text(BaFin), Text(AlphaCo), Text(NewExample), NaN, Text(Note1))

Beta(d) ==
    IF d = "casps"
    THEN CaspRow(Text(PaddedFR), Text(PaddedAMF), Text(BetaCo), Text(BetaExample), NaN, NaN, NaN)
    ELSE NonCompliantRow(Text(PaddedFR), Text(PaddedAMF), Text(BetaCo), Text(BetaExample),
                         Text(NewMark), NaN)

SourceColumns(d) == IF d = "casps" THEN CaspColumns ELSE NonCompliantColumns

\* the registers a run of dataset d may download
SourceFrames(d) ==
    {Frame(SourceColumns(d), rows) :
        rows \in {<<>>, <<AlphaOld(d)>>, <<AlphaNew(d)>>, <<Beta(d)>>}}

SourceUrl(d) == IF d = "casps" THEN "file://casps.csv" ELSE "file://non_compliant.csv"

(* ---------------------------- the pipelines ---------------------------- *)

MaxRuns == 3
MaxClock == 2

VARIABLES
    table,      \* data/state.sqlite: per dataset, the rows of its key-hash table
    out,        \* out/: per dataset, its three output files
    meta,       \* out/meta.json
    backups,    \* data/backups: per dataset, timestamp -> the files of that directory
    now,        \* the wall clock, an instant
    stamp,      \* the timestamp backup_existing_outputs last made of the clock
    metatmp,    \* out/meta.json.tmp
    pc,         \* the position of the running pipeline, "idle" between runs
    cur,        \* the dataset of the current (or last) run
    raw,        \* the frame the run downloaded
    df,         \* the normalized frame
    diff,       \* the DiffResult of the run
    runs,       \* the number of runs started
    start,      \* the persisted state when the current (or last) run started
    outcome,    \* "none", "running", "ok" (run() returned) or "failed" (it raised)
    feed,       \* the registers the source serves, run after run, where they are
                \* fixed in advance (empty where each download picks its own)
    tmp,        \* out/: per dataset, the <file>.tmp next to each output file
    aw,         \* the path and the data of the atomic_write call followed step by step
    conn,       \* the sqlite connection of a commit followed statement by statement
    calls,      \* per dataset, the update_meta call of two that run concurrently
    main        \* run_all.main: "none" while it is not running, the pipeline
                \* whose run it has called, or "raised" when it ended on an
                \* exception of its own

vars == <<table, out, meta, backups, now, stamp, metatmp, pc, cur, raw, df, diff, runs, start, outcome, feed,
         tmp, aw, conn, calls, main>>

NoFrame == Frame(<<>>, <<>>)

\* the instant at which the runs begin, 2025-01-01T00:00:00Z
ClockStart == Instant(1735689600, 0)

RECURSIVE Later(_, _)
\* the instant n halves of a second after t
Later(t, n) == IF n = 0 THEN t ELSE Later(After(t, 500000), n - 1)

\* the instants the clock shows in turn
Instants == {Later(ClockStart, n) : n \in 0..MaxClock}

\* the day of the clock, the time zone of the process being UTC: pandas
\* reads it for the texts "now" and "today", dateutil its year for a year of
\* two digits
Today == UtcDate(now)

\* no atomic_write call, no connection and no update_meta call is followed
\* step by step
NoTmp == [d \in Datasets |-> [f \in FileNames |-> NoFile]]
NoWrite == [path |-> "none", data |-> NoData]
NoConn == [view |-> <<>>, upserts |-> <<>>, deletes |-> <<>>]
NoCalls ==
    [d \in Datasets |-> [at |-> "none", metadata |-> EmptyDict, instant |-> ClockStart,
                          raw |-> NoMeta, fd |-> "none", overlapped |-> FALSE]]
NoCallFollowed == tmp = NoTmp /\ aw = NoWrite /\ conn = NoConn /\ calls = NoCalls

Snapshot == [table |-> table, out |-> out, meta |-> meta, backups |-> backups]

Init ==
    /\ table = [d \in Datasets |-> <<>>]
    /\ out = [d \in Datasets |-> [f \in FileNames |-> NoFile]]
    /\ meta = NoMeta
    /\ backups = [d \in Datasets |-> EmptyFcn]
    /\ now = ClockStart
    /\ stamp = ""
    /\ metatmp = NoMeta
    /\ main = "none"
    /\ pc = "idle"
    /\ cur = "casps"
    /\ raw = NoFrame
    /\ df = NoFrame
    /\ diff = EmptyDiff
    /\ runs = 0
    /\ start = [table |-> [d \in Datasets |-> <<>>],
                out |-> [d \in Datasets |-> [f \in FileNames |-> NoFile]],
                meta |-> NoMeta,
                backups |-> [d \in Datasets |-> EmptyFcn]]
    /\ outcome = "none"
    /\ feed = <<>>
    /\ NoCallFollowed

\* the export view of the current run
ExportView == IF cur = "casps" THEN CaspExport(df) ELSE build_export_dataframe(df)

\* run() of either pipeline is entered from the module's own __main__, not
\* from run_all.main
StartRun(d) ==
    /\ pc = "idle"
    /\ runs < MaxRuns
    /\ pc' = "download"
    /\ cur' = d
    /\ runs' = runs + 1
    /\ start' = Snapshot
    /\ outcome' = "running"
    /\ raw' = NoFrame
    /\ df' = NoFrame
    /\ diff' = EmptyDiff
    /\ main' = "none"
    /\ UNCHANGED <<tmp, aw, conn, calls, feed, stamp, metatmp, table, out, meta, backups, now>>

\* download_csv / download_casp_dataframe returns the register
Download(frame) ==
    /\ pc = "download"
    /\ raw' = frame
    /\ pc' = "normalize"
    /\ UNCHANGED <<tmp, aw, conn, calls, feed, stamp, metatmp, main, table, out, meta, backups, now, cur, df, diff, runs, start, outcome>>

\* the run raises: nothing more of it is executed, and its frame and its
\* DiffResult are lost with it
Raise ==
    /\ pc' = "idle"
    /\ outcome' = "failed"
    /\ df' = NoFrame
    /\ diff' = EmptyDiff

\* casps run(): normalize_casp_dataframe.  It raises ValueError on headers
\* that collide and KeyError on a frame without a required column
CaspsNormalize ==
    /\ pc = "normalize"
    /\ cur = "casps"
    /\ IF ~HeadersCollide(raw) /\ CaspRequiredColumns \subseteq ListSet(normalize_columns(raw).columns)
       THEN /\ df' = normalize_casp_dataframe(raw, Today)
            /\ pc' = "diff"
            /\ UNCHANGED <<diff, outcome>>
       ELSE Raise
    /\ UNCHANGED <<tmp, aw, conn, calls, feed, stamp, metatmp, main, table, out, meta, backups, now, cur, raw, runs, start>>

\* a run() that goes on to the store without the check of the normalized frame
NonCompliantNormalizeUnchecked ==
    /\ pc = "normalize"
    /\ cur = "non_compliant"
    /\ IF HeadersCollide(raw)
       THEN Raise
       ELSE /\ df' = normalize_non_compliant_dataframe(raw)
            /\ pc' = "diff"
            /\ UNCHANGED <<diff, outcome>>
    /\ UNCHANGED <<tmp, aw, conn, calls, feed, stamp, metatmp, main, table, out, meta, backups, now, cur, raw, runs, start>>

\* non_compliant run(): normalize_non_compliant_dataframe, which raises
\* ValueError on headers that collide, and the ValueError on an empty
\* normalized frame
NonCompliantNormalize ==
    /\ pc = "normalize"
    /\ cur = "non_compliant"
    /\ IF HeadersCollide(raw)
       THEN Raise
       ELSE \E normalized \in {normalize_non_compliant_dataframe(raw)} :
                IF normalized.rows = <<>>
                THEN Raise
                ELSE /\ df' = normalized
                     /\ pc' = "diff"
                     /\ UNCHANGED <<diff, outcome>>
    /\ UNCHANGED <<tmp, aw, conn, calls, feed, stamp, metatmp, main, table, out, meta, backups, now, cur, raw, runs, start>>

\* diff_against_state: the transaction commits
DiffAgainstState ==
    /\ pc = "diff"
    /\ LET r == diff_against_state(cur, df, table[cur])
       IN  /\ table' = [table EXCEPT ![cur] = r.table]
           /\ diff' = r.diff
    /\ pc' = "publish"
    /\ UNCHANGED <<tmp, aw, conn, calls, feed, stamp, metatmp, main, out, meta, backups, now, cur, raw, df, runs, start, outcome>>

\* write_dataset up to its first write: the empty-view guard and the backup,
\* which reads the clock
WriteDatasetBackup ==
    /\ pc = "publish"
    /\ cur = "non_compliant"
    /\ IF ExportView = <<>>
       THEN /\ Raise
            /\ UNCHANGED <<backups, stamp>>
       ELSE /\ backups' = [backups EXCEPT ![cur] = backup_existing_outputs(@, out[cur], strftime(now))]
            /\ stamp' = strftime(now)
            /\ pc' = "w_csv"
            /\ UNCHANGED <<df, diff, outcome>>
    /\ UNCHANGED <<tmp, aw, conn, calls, feed, metatmp, main, table, out, meta, now, cur, raw, runs, start>>

\* the loop of backup_existing_outputs raises at the copy of file f: the
\* directory is there, the files before f are copied, and of f the directory
\* has what it had or, when cut, a copy that was not finished
PartialBackup(dirs, files, timestamp, f, cut) ==
    LET old == IF timestamp \in DOMAIN dirs THEN dirs[timestamp]
               ELSE [g \in FileNames |-> NoFile]
        copied == {FileOrder[i] :
                    i \in 1..((CHOOSE j \in DOMAIN FileOrder : FileOrder[j] = f) - 1)}
        dir == [g \in FileNames |->
                    IF g \in copied /\ files[g].exists THEN files[g]
                    ELSE IF g = f /\ cut THEN TruncatedFile ELSE old[g]]
    IN  [t \in DOMAIN dirs \cup {timestamp} |-> IF t = timestamp THEN dir ELSE dirs[t]]

\* write_dataset: shutil.copy2 of backup_existing_outputs raises on file f
WriteDatasetBackupCut(f, cut) ==
    /\ pc = "publish"
    /\ cur = "non_compliant"
    /\ ExportView # <<>>
    /\ out[cur][f].exists
    /\ backups' = [backups EXCEPT ![cur] = PartialBackup(@, out[cur], strftime(now), f, cut)]
    /\ stamp' = strftime(now)
    /\ Raise
    /\ UNCHANGED <<tmp, aw, conn, calls, feed, metatmp, main, table, out, meta, now, cur, raw, runs,
                   start>>

\* atomic_write(path, data): the file at path is replaced in one step
atomic_write(files, f, data) == [files EXCEPT ![f] = WholeFile(data)]

\* atomic_write(path, data) has returned: <path>.tmp was renamed to path
TmpRenamed(files, f) == [files EXCEPT ![f] = NoFile]

\* write_dataset: atomic_write of <name>.csv
WriteDatasetCsv ==
    /\ pc = "w_csv"
    /\ cur = "non_compliant"
    /\ out' = [out EXCEPT ![cur] = atomic_write(@, "csv", CsvData(ExportView))]
    /\ tmp' = [tmp EXCEPT ![cur] = TmpRenamed(@, "csv")]
    /\ pc' = "w_json"
    /\ UNCHANGED <<aw, conn, calls, feed, stamp, metatmp, main, table, meta, backups, now, cur, raw, df, diff, runs, start, outcome>>

\* write_dataset: atomic_write of <name>.json
WriteDatasetJson ==
    /\ pc = "w_json"
    /\ cur = "non_compliant"
    /\ out' = [out EXCEPT ![cur] = atomic_write(@, "json", JsonData(ExportView))]
    /\ tmp' = [tmp EXCEPT ![cur] = TmpRenamed(@, "json")]
    /\ pc' = "w_delta"
    /\ UNCHANGED <<aw, conn, calls, feed, stamp, metatmp, main, table, meta, backups, now, cur, raw, df, diff, runs, start, outcome>>

\* write_dataset: atomic_write of <name>_delta.csv
WriteDatasetDelta ==
    /\ pc = "w_delta"
    /\ cur = "non_compliant"
    /\ out' = [out EXCEPT ![cur] = atomic_write(@, "delta", DeltaData(diff))]
    /\ tmp' = [tmp EXCEPT ![cur] = TmpRenamed(@, "delta")]
    /\ pc' = "w_meta"
    /\ UNCHANGED <<aw, conn, calls, feed, stamp, metatmp, main, table, meta, backups, now, cur, raw, df, diff, runs, start, outcome>>

\* write_dataset: update_meta, after which run() returns
WriteDatasetMeta ==
    /\ pc = "w_meta"
    /\ cur = "non_compliant"
    /\ meta' = update_meta(cur, DatasetMeta(Len(ExportView), diff, SourceUrl(cur)), meta, now)
    /\ metatmp' = NoMeta
    /\ pc' = "idle"
    /\ outcome' = "ok"
    /\ UNCHANGED <<tmp, aw, conn, calls, feed, stamp, main, table, out, backups, now, cur, raw, df, diff, runs, start>>

\* the position of write_dataset before each of its files
WriteDatasetPc(f) ==
    CASE f = "csv" -> "w_csv" [] f = "json" -> "w_json" [] f = "delta" -> "w_delta"

\* the position of write_outputs before each of its files
CaspsWritePc(f) ==
    CASE f = "csv" -> "publish" [] f = "json" -> "w_json" [] f = "delta" -> "w_delta"

CaspsNextPc(f) ==
    CASE f = "csv" -> "w_json" [] f = "json" -> "w_delta" [] f = "delta" -> "w_meta"

\* the content write_outputs, and write_dataset, gives a file
CaspsData(f) ==
    CASE f = "csv" -> CsvData(ExportView)
      [] f = "json" -> JsonData(ExportView)
      [] f = "delta" -> DeltaData(diff)

\* write_outputs: to_csv, write_text or the csv writer, on the file in place
CaspsWriteFile(f) ==
    /\ cur = "casps"
    /\ pc = CaspsWritePc(f)
    /\ out' = [out EXCEPT ![cur][f] = WholeFile(CaspsData(f))]
    /\ pc' = CaspsNextPc(f)
    /\ UNCHANGED <<tmp, aw, conn, calls, feed, stamp, metatmp, main, table, meta, backups, now, cur, raw, df, diff, runs, start, outcome>>

\* write_outputs: a write in place that raises after the file was opened
CaspsWriteFileCut(f) ==
    /\ cur = "casps"
    /\ pc = CaspsWritePc(f)
    /\ out' = [out EXCEPT ![cur][f] = TruncatedFile]
    /\ Raise
    /\ UNCHANGED <<tmp, aw, conn, calls, feed, stamp, metatmp, main, table, meta, backups, now, cur, raw, runs, start>>

\* write_outputs: meta.json is overwritten with this run's flat document
CaspsWriteMeta ==
    /\ cur = "casps"
    /\ pc = "w_meta"
    /\ meta' = MetaFile(CaspMetadata(Len(ExportView), diff, now))
    /\ pc' = "idle"
    /\ outcome' = "ok"
    /\ UNCHANGED <<tmp, aw, conn, calls, feed, stamp, metatmp, main, table, out, backups, now, cur, raw, df, diff, runs, start>>

\* write_outputs: the write of meta.json raises after the file was opened
CaspsWriteMetaCut ==
    /\ cur = "casps"
    /\ pc = "w_meta"
    /\ meta' = TruncatedMeta
    /\ Raise
    /\ UNCHANGED <<tmp, aw, conn, calls, feed, stamp, metatmp, main, table, out, backups, now, cur, raw, runs, start>>

\* write_dataset: an atomic_write raises with <path>.tmp in place, empty
\* when write_text raised after it opened the file, complete when the
\* rename raised
WriteDatasetFileCut(f, complete) ==
    /\ cur = "non_compliant"
    /\ pc = WriteDatasetPc(f)
    /\ tmp' = [tmp EXCEPT ![cur][f] = IF complete THEN WholeFile(CaspsData(f)) ELSE TruncatedFile]
    /\ Raise
    /\ UNCHANGED <<aw, conn, calls, feed, stamp, metatmp, main, table, out, meta, backups, now, cur,
                   raw, runs, start>>

\* write_dataset: the atomic_write of update_meta raises with meta.json.tmp
\* in place
WriteDatasetMetaCut(complete) ==
    /\ cur = "non_compliant"
    /\ pc = "w_meta"
    /\ metatmp' = IF complete
                  THEN update_meta(cur, DatasetMeta(Len(ExportView), diff, SourceUrl(cur)), meta,
                                   now)
                  ELSE TruncatedMeta
    /\ Raise
    /\ UNCHANGED <<tmp, aw, conn, calls, feed, stamp, main, table, out, meta, backups, now, cur,
                   raw, runs, start>>

\* the step the run is at raises where it has changed no file yet (no source
\* link, a transport error, a rolled-back transaction, a directory that
\* cannot be made, a file that cannot be opened)
Fail ==
    /\ pc # "idle"
    /\ Raise
    /\ UNCHANGED <<tmp, aw, conn, calls, feed, stamp, metatmp, main, table, out, meta, backups, now, cur, raw, runs, start>>

\* half a second passes, between two runs or while one is under way
Tick ==
    /\ now \in Instants \ {Later(ClockStart, MaxClock)}
    /\ now' = After(now, 500000)
    /\ UNCHANGED <<tmp, aw, conn, calls, feed, stamp, metatmp, main, table, out, meta, backups, pc, cur, raw, df, diff, runs, start, outcome>>

\* the steps of the pipelines themselves
RunNext ==
    \/ \E d \in Datasets : StartRun(d)
    \/ \E frame \in SourceFrames(cur) : Download(frame)
    \/ CaspsNormalize
    \/ NonCompliantNormalize
    \/ DiffAgainstState
    \/ WriteDatasetBackup
    \/ WriteDatasetCsv
    \/ WriteDatasetJson
    \/ WriteDatasetDelta
    \/ WriteDatasetMeta
    \/ \E f \in FileNames : CaspsWriteFile(f)
    \/ CaspsWriteMeta
    \/ Tick

\* the failures the environment may inject into a run
FailNext ==
    \/ \E f \in FileNames : CaspsWriteFileCut(f)
    \/ CaspsWriteMetaCut
    \/ \E f \in FileNames : \E cut \in BOOLEAN : WriteDatasetBackupCut(f, cut)
    \/ \E f \in FileNames : \E complete \in BOOLEAN : WriteDatasetFileCut(f, complete)
    \/ \E complete \in BOOLEAN : WriteDatasetMetaCut(complete)
    \/ Fail

Next == RunNext \/ FailNext

\* runs that may fail at any step
Spec == Init /\ [][Next]_vars

\* runs in which nothing fails but what the pipelines raise themselves
RunsSpec == Init /\ [][RunNext]_vars

(* ------------------- properties of the pipeline runs ------------------- *)

\* run() of the current dataset has returned
RunReturned == pc = "idle" /\ outcome = "ok"

\* run() of the current dataset has raised
RunFailed == pc = "idle" /\ outcome = "failed"

InList(k, list) == \E i \in DOMAIN list : list[i] = k

\* the normalized frame dataset d makes of a downloaded frame on the day
\* today of the clock
Normalized(d, frame, today) ==
    IF d = "casps" THEN normalize_casp_dataframe(frame, today)
    ELSE normalize_non_compliant_dataframe(frame)

\* C1: Removal, in both pipelines.  When a run has completed, every key that
\* was in the persisted table before the run and that no row of the batch
\* carries is in the run's removed list and is absent from the persisted
\* table after the run.
C1_Removal ==
    RunReturned =>
        \A k \in Keys(start.table[cur]) \ Keys(Records(df)) :
            /\ InList(k, diff.removed)
            /\ k \notin Keys(table[cur])

\* C3: Failure never modifies published data.  When a dataset's run has
\* failed, at whatever step, each of its three output files has the content
\* it had when the run started.
C3_FailureKeepsOutputs ==
    RunFailed => out[cur] = start.out[cur]

\* C4: Publish guard, in both pipelines.  A run whose export view has zero
\* rows does not get past the entry of the publisher: it writes nothing, so
\* the dataset's output files and the metadata document stay as they were
\* when the run started, and it does not return.
C4_PublishGuard ==
    ( /\ outcome \in {"running", "ok"}
      /\ df.columns # <<>>
      /\ ExportView = <<>> )
    => ( /\ pc \in {"diff", "publish"}
         /\ out[cur] = start.out[cur]
         /\ meta = start.meta )

\* the dataset whose run wrote the metadata document the current run found:
\* write_outputs writes a flat document, update_meta a keyed one
FirstDataset == IF Has(start.meta.doc, "source") THEN "casps" ELSE "non_compliant"

\* the values that run wrote for its dataset
FirstWritten ==
    IF FirstDataset = "casps" THEN start.meta.doc ELSE Get(start.meta.doc, "non_compliant")

\* C5: Metadata isolation.  After the two datasets have run one after the
\* other, in either order and each with success, out/meta.json holds an
\* entry under each dataset's name, and the entry of the dataset that ran
\* first holds the values its run wrote.
C5_MetadataIsolation ==
    ( /\ runs = 2
      /\ RunReturned
      /\ start.meta.exists
      /\ start.meta.parsable
      /\ FirstDataset # cur )
    => ( /\ Datasets \subseteq DictKeys(meta.doc)
         /\ AsMap(Get(meta.doc, FirstDataset)) = AsMap(FirstWritten) )

\* the key of the entity AlphaCo in dataset d
AlphaKey(d) ==
    Normalized(d, Frame(SourceColumns(d), <<AlphaOld(d)>>), Today).rows[1].pk

\* the (pk, hash) pairs of the one-row register <<row>> of dataset d
PairsOfRow(d, row) ==
    Pairs(Records(Normalized(d, Frame(SourceColumns(d), <<row>>), Today)))

\* C6: The three-run scenario, in either pipeline.  From an empty table, the
\* run on the single row (DE, BaFin, AlphaCo, old.example) reports its key as
\* new; the next run, on the same entity with new.example, reports the key as
\* updated and as neither new nor removed; the run after that, on a source
\* without the entity, reports the key as removed and leaves no entry for it
\* in the persisted table.
C6_ThreeRuns ==
    /\ ( /\ RunReturned
         /\ raw.rows = <<AlphaOld(cur)>>
         /\ start.table[cur] = <<>> )
       => InList(AlphaKey(cur), diff.new)
    /\ ( /\ RunReturned
         /\ raw.rows = <<AlphaNew(cur)>>
         /\ Pairs(start.table[cur]) = PairsOfRow(cur, AlphaOld(cur)) )
       => ( /\ InList(AlphaKey(cur), diff.updated)
            /\ ~InList(AlphaKey(cur), diff.new)
            /\ ~InList(AlphaKey(cur), diff.removed) )
    /\ ( /\ RunReturned
         /\ AlphaKey(cur) \notin Keys(Records(df))
         /\ Pairs(start.table[cur]) = PairsOfRow(cur, AlphaNew(cur)) )
       => ( /\ InList(AlphaKey(cur), diff.removed)
            /\ AlphaKey(cur) \notin Keys(table[cur]) )

(* --------------- the store on arbitrary tables and batches ------------- *)
(* diff_against_state is applied twice in a row to the same batch, from      *)
(* every table over a few keys and hashes and for every batch of at most     *)
(* MaxBatch rows, rows with the same key included.                           *)

MaxBatch == 2

StoreKeys == {"k1", "k2", "k3"}
StoreHashes == {"h1", "h2"}
StoreRows == [pk : StoreKeys, hash : StoreHashes]

\* the sequences over S of length at most n
SeqsUpTo(S, n) == UNION {[1..m -> S] : m \in 0..n}

\* no two rows of rs have the same pk
DistinctPk(rs) == \A i, j \in DOMAIN rs : rs[i].pk = rs[j].pk => i = j

\* the contents a table with PRIMARY KEY pk can have
StoreTables == {t \in SeqsUpTo(StoreRows, Cardinality(StoreKeys)) : DistinctPk(t)}

StoreBatches == {Frame(<<"pk", "hash">>, rows) : rows \in SeqsUpTo(StoreRows, MaxBatch)}

StoreInit ==
    /\ cur \in Datasets
    /\ \E t \in StoreTables : table = [d \in Datasets |-> IF d = cur THEN t ELSE <<>>]
    /\ df \in StoreBatches
    /\ out = [d \in Datasets |-> [f \in FileNames |-> NoFile]]
    /\ meta = NoMeta
    /\ backups = [d \in Datasets |-> EmptyFcn]
    /\ now = ClockStart
    /\ stamp = ""
    /\ metatmp = NoMeta
    /\ main = "none"
    /\ pc = "diff"
    /\ raw = NoFrame
    /\ diff = EmptyDiff
    /\ runs = 0
    /\ start = [table |-> table, out |-> out, meta |-> meta, backups |-> backups]
    /\ outcome = "running"
    /\ feed = <<>>
    /\ NoCallFollowed

\* diff_against_state(df, table) of the current dataset's pipeline returns;
\* the next call gets the same df
StoreRun ==
    /\ pc = "diff"
    /\ runs < 2
    /\ LET r == diff_against_state(cur, df, table[cur])
       IN  /\ table' = [table EXCEPT ![cur] = r.table]
           /\ diff' = r.diff
    /\ start' = Snapshot
    /\ runs' = runs + 1
    /\ UNCHANGED <<tmp, aw, conn, calls, feed, stamp, metatmp, main, out, meta, backups, now, pc, cur, raw, df, outcome>>

StoreSpec == StoreInit /\ [][StoreRun]_vars

\* C2: Idempotence of the shared store as the non_compliant pipeline uses
\* it.  From any table and for every batch, rows with the same key included,
\* the second of two runs in a row on the same batch reports empty new,
\* updated and removed lists.
C2_Idempotence ==
    (runs = 2 /\ cur = "non_compliant") => diff = EmptyDiff

\* C7: The persisted-table invariant of esma_common.diff_against_state.
\* After each call, from any table and for any batch whose rows have pairwise
\* distinct pk, the table's (pk, hash) pairs are exactly those of the batch.
C7_TableEqualsBatch ==
    (runs >= 1 /\ cur = "non_compliant" /\ DistinctPk(Records(df)))
    => Pairs(table[cur]) = Pairs(Records(df))

\* a call of the shared store that had a stale key to delete, a hash to
\* replace and a key to add
C7_Witness ==
    /\ runs = 1
    /\ cur = "non_compliant"
    /\ DistinctPk(Records(df))
    /\ Keys(start.table[cur]) \ Keys(Records(df)) # {}
    /\ Keys(Records(df)) \ Keys(start.table[cur]) # {}
    /\ \E i \in DOMAIN df.rows :
          /\ df.rows[i].pk \in Keys(start.table[cur])
          /\ ExistingHash(start.table[cur], df.rows[i].pk) # df.rows[i].hash
    /\ Pairs(table[cur]) = Pairs(Records(df))

\* C8: The classification rule, in both implementations.  For the table E a
\* call finds and its batch B, as sets of keys: new is the keys of B absent
\* from E, updated is the keys of both for which some row of B carries a hash
\* other than E's, removed is the keys of E absent from B; and the three sets
\* are pairwise disjoint.
C8_Classification ==
    runs >= 1 =>
        LET E == start.table[cur]
            B == Records(df)
        IN  /\ ListSet(diff.new) = Keys(B) \ Keys(E)
            /\ ListSet(diff.updated) =
                 {k \in Keys(B) \cap Keys(E) :
                     \E i \in DOMAIN B : B[i].pk = k /\ B[i].hash # ExistingHash(E, k)}
            /\ ListSet(diff.removed) = Keys(E) \ Keys(B)
            /\ ListSet(diff.new) \cap ListSet(diff.updated) = {}
            /\ ListSet(diff.new) \cap ListSet(diff.removed) = {}
            /\ ListSet(diff.updated) \cap ListSet(diff.removed) = {}

\* a call, in the casps implementation, with a new, an updated and a removed key
C8_Witness ==
    /\ runs = 1
    /\ cur = "casps"
    /\ diff.new # <<>>
    /\ diff.updated # <<>>
    /\ diff.removed # <<>>

(* ------------------- fingerprints of two runs in a row ----------------- *)
(* Two registers of at most MaxBatch rows are fixed in advance and run one   *)
(* after the other from an empty table.  Their rows vary the website, the    *)
(* service code (casps) or the "new" mark (non_compliant) and a comments     *)
(* column that is no business field; one casps row writes its date in        *)
(* another form, and one non_compliant row has blanks for a name.            *)

FingerprintWebsites == {<<"a">>, <<"a", "b">>}
FingerprintServices == {NaN, Text(<<"b">>)}
FingerprintMarks == {NaN, Text(NewMark)}
FingerprintComments == {Text(Note1), Text(Note2)}

FingerprintRows(d) ==
    IF d = "casps"
    THEN {CaspRow(Text(DE), Text(BaFin), Text(AlphaCo), Text(w), s, c, Text(January31)) :
             w \in FingerprintWebsites, s \in FingerprintServices, c \in FingerprintComments}
         \cup {CaspRow(Text(DE), Text(BaFin), Text(AlphaCo), Text(<<"a">>), NaN, Text(Note1),
                       Text(January31Iso))}
         \cup {Beta(d)}
    ELSE {NonCompliantRow(Text(DE), Text(BaFin), Text(AlphaCo), Text(w), m, c) :
             w \in FingerprintWebsites, m \in FingerprintMarks, c \in FingerprintComments}
         \cup {NonCompliantRow(Text(DE), Text(BaFin), Text(<<" ">>), Text(<<"a">>), NaN,
                               Text(Note1))}
         \cup {Beta(d)}

FingerprintFrames(d) ==
    {Frame(SourceColumns(d), rows) :
        rows \in SeqsUpTo(FingerprintRows(d), MaxBatch) \ {<<>>}}

FingerprintInit ==
    /\ cur \in Datasets
    /\ \E f1, f2 \in FingerprintFrames(cur) : feed = <<f1, f2>>
    /\ NoCallFollowed
    /\ table = [d \in Datasets |-> <<>>]
    /\ out = [d \in Datasets |-> [f \in FileNames |-> NoFile]]
    /\ meta = NoMeta
    /\ backups = [d \in Datasets |-> EmptyFcn]
    /\ now = ClockStart
    /\ stamp = ""
    /\ metatmp = NoMeta
    /\ main = "none"
    /\ pc = "idle"
    /\ raw = NoFrame
    /\ df = NoFrame
    /\ diff = EmptyDiff
    /\ runs = 0
    /\ start = [table |-> table, out |-> out, meta |-> meta, backups |-> backups]
    /\ outcome = "none"

\* the export view dataset d makes of a downloaded frame on the day today
ExportOf(d, frame, today) ==
    IF d = "casps" THEN CaspExport(Normalized(d, frame, today))
    ELSE build_export_dataframe(Normalized(d, frame, today))

\* run() is entered while the source has a register left to serve
FedStartRun ==
    /\ runs < Len(feed)
    /\ StartRun(cur)

\* download_csv returns the next register of the feed
FedDownload == Download(feed[runs])

\* run() of either pipeline, step by step, on the registers of the feed, in
\* which nothing fails but what the code raises itself, the two runs
\* falling within one reading of the clock.  The registers of the feed have
\* every column normalisation reads.
FingerprintNext ==
    \/ FedStartRun
    \/ FedDownload
    \/ CaspsNormalize
    \/ NonCompliantNormalize
    \/ DiffAgainstState
    \/ WriteDatasetBackup
    \/ WriteDatasetCsv
    \/ WriteDatasetJson
    \/ WriteDatasetDelta
    \/ WriteDatasetMeta
    \/ \E f \in FileNames : CaspsWriteFile(f)
    \/ CaspsWriteMeta

FingerprintSpec == FingerprintInit /\ [][FingerprintNext]_vars

\* the business columns of dataset d, for a frame with the given columns
BusinessCols(d, columns) ==
    IF d = "casps" THEN CaspBusinessCols(columns) ELSE NonCompliantBusinessCols

\* the values of the business columns of a normalized row, in order
BusinessTuple(d, columns, r) ==
    [i \in DOMAIN BusinessCols(d, columns) |-> r.col[BusinessCols(d, columns)[i]]]

\* the normalized frame of the first run
FirstFrame == Normalized(cur, feed[1], Today)

\* the row of the first run whose hash the table holds for key k: the last
\* row with that key
HashedRow(k) ==
    FirstFrame.rows[CHOOSE i \in DOMAIN FirstFrame.rows :
                      /\ FirstFrame.rows[i].pk = k
                      /\ \A j \in DOMAIN FirstFrame.rows :
                            FirstFrame.rows[j].pk = k => j <= i]

\* C9: Update detection has no false negatives, in either pipeline.  If key
\* k is in the table from the prior run and the batch has exactly one row
\* with key k, whose business-column values differ in some column from those
\* hashed for k in the prior run, then the run reports k as updated and as
\* neither new nor removed.
C9_NoMissedUpdate ==
    (runs = 2 /\ RunReturned) =>
        \A i \in DOMAIN df.rows :
            LET k == df.rows[i].pk
            IN  ( /\ k \in Keys(start.table[cur])
                  /\ \A j \in DOMAIN df.rows : df.rows[j].pk = k => j = i
                  /\ BusinessTuple(cur, df.columns, df.rows[i])
                       # BusinessTuple(cur, FirstFrame.columns, HashedRow(k)) )
                => ( /\ InList(k, diff.updated)
                     /\ ~InList(k, diff.new)
                     /\ ~InList(k, diff.removed) )

\* the second register is the first with other values in columns that are
\* no business fields
OnlyCommentsDiffer ==
    /\ Len(feed[1].rows) = Len(feed[2].rows)
    /\ \A i \in DOMAIN feed[1].rows :
          \A c \in ListSet(SourceColumns(cur)) \ {CommentsHeader} :
              feed[1].rows[i][c] = feed[2].rows[i][c]

\* C10: Hash locality, in either pipeline.  Two canonical records that agree
\* on every business column have the same content hash whatever their other
\* columns hold, so a run whose source differs from the previous run's only
\* in non-business fields reports no key as new or updated.
C10_HashLocality ==
    (runs = 2 /\ RunReturned) =>
        /\ \A i \in DOMAIN df.rows : \A j \in DOMAIN FirstFrame.rows :
              BusinessTuple(cur, df.columns, df.rows[i])
                  = BusinessTuple(cur, FirstFrame.columns, FirstFrame.rows[j])
              => df.rows[i].hash = FirstFrame.rows[j].hash
        /\ OnlyCommentsDiffer => (diff.new = <<>> /\ diff.updated = <<>>)


(* ------------------------- identity-key format -------------------------- *)

\* the jurisdiction code, the authority and the entity of a source row as the
\* register gives them, which the raw_ columns keep, stripped
SourceCode(r) == StrStrip(PyStr(r.col["raw_ae_home_member_state"]))
SourceAuthority(r) == StrStrip(PyStr(r.col["raw_ae_competent_authority"]))
SourceName(r) == StrStrip(PyStr(r.col["raw_ae_lei_name"]))

AlphaPk ==
    <<"D", "E", "|", "b", "a", "f", "i", "n", "|", "a", "l", "p", "h", "a", "c", "o">>

\* C11: in either pipeline the pk of a canonical record is the uppercased
\* jurisdiction code, the lowercased authority name and the lowercased entity
\* name joined by '|'; the row (DE, BaFin, AlphaCo) gets pk 'DE|bafin|alphaco'.
C11_PkFormat ==
    \A i \in DOMAIN df.rows :
        LET r == df.rows[i]
        IN  /\ r.pk = MakePk(SourceCode(r), SourceAuthority(r), SourceName(r))
            /\ (SourceCode(r) = DE /\ SourceAuthority(r) = BaFin /\ SourceName(r) = AlphaCo)
                    => r.pk = AlphaPk

(* ------------------------------- backups -------------------------------- *)

\* write_dataset makes a backup in this step: it is past its guard and at
\* least one output file of the dataset exists
MakesBackup ==
    /\ pc = "publish" /\ pc' = "w_csv"
    /\ \E f \in FileNames : out[cur][f].exists

\* C12: Backups are never overwritten.  Every run of write_dataset that makes
\* a backup stores it in a location no earlier backup of the dataset has, and
\* no file of an earlier backup is ever replaced.
C12_BackupsKept ==
    [][/\ MakesBackup => strftime(now) \notin DOMAIN backups[cur]
       /\ \A d \in Datasets : \A t \in DOMAIN backups[d] :
            t \in DOMAIN backups'[d] /\ backups'[d][t] = backups[d][t]]_vars

\* write_dataset of the current run is past backup_existing_outputs
PastBackup ==
    /\ cur = "non_compliant"
    /\ outcome = "running"
    /\ pc \in {"w_csv", "w_json", "w_delta", "w_meta"}

\* C13: Backup gating and ordering in write_dataset.  If none of the three
\* output files exists when write_dataset starts, the run creates no backup
\* directory; otherwise, before any output file is replaced, the run's
\* timestamped directory holds a copy of every output file that existed at
\* the start, with its prior content.
C13_BackupGating ==
    (cur = "non_compliant" /\ outcome = "running") =>
        /\ ~PastBackup => (out[cur] = start.out[cur] /\ backups[cur] = start.backups[cur])
        /\ PastBackup =>
             IF \A f \in FileNames : ~start.out[cur][f].exists
             THEN backups[cur] = start.backups[cur]
             ELSE /\ stamp \in DOMAIN backups[cur]
                  /\ \A f \in FileNames :
                        start.out[cur][f].exists => backups[cur][stamp][f] = start.out[cur][f]

\* a run has replaced <dataset>.csv and <dataset>.json by other content, and
\* the prior files are in its backup directory
C13_Witness ==
    /\ PastBackup
    /\ pc = "w_delta"
    /\ \A f \in FileNames : start.out[cur][f].exists
    /\ out[cur]["csv"] # start.out[cur]["csv"]
    /\ out[cur]["json"] # start.out[cur]["json"]
    /\ stamp \in DOMAIN backups[cur]
    /\ backups[cur][stamp] = start.out[cur]

(* ------------------- atomic_write, followed step by step ----------------- *)

\* the contents write_dataset gives file f of dataset d on the register frame,
\* from an empty key-hash table, on the day the runs begin
FileContent(d, f, frame) ==
    CASE f = "csv" -> CsvData(ExportOf(d, frame, UtcDate(ClockStart)))
      [] f = "json" -> JsonData(ExportOf(d, frame, UtcDate(ClockStart)))
      [] f = "delta" ->
            DeltaData(diff_against_state(d, Normalized(d, frame, UtcDate(ClockStart)),
                                         <<>>).diff)

\* per output file of non_compliant, the contents write_dataset may give it
FileContents ==
    [f \in FileNames |->
        {FileContent("non_compliant", f, frame) :
            frame \in {fr \in SourceFrames("non_compliant") : fr.rows # <<>>}}]

\* what an earlier run on the register of AlphaCo left in the files of
\* non_compliant
EarlierFiles ==
    [f \in FileNames |->
        WholeFile(FileContent("non_compliant", f,
                              Frame(NonCompliantColumns, <<AlphaOld("non_compliant")>>)))]

AtomicWriteInit ==
    /\ cur = "non_compliant"
    /\ table = [d \in Datasets |-> <<>>]
    /\ \E present \in SUBSET FileNames :
            out = [d \in Datasets |-> [f \in FileNames |->
                        IF d = cur /\ f \in present THEN EarlierFiles[f] ELSE NoFile]]
    /\ meta = NoMeta
    /\ backups = [d \in Datasets |-> EmptyFcn]
    /\ now = ClockStart
    /\ stamp = ""
    /\ metatmp = NoMeta
    /\ main = "none"
    /\ pc = "idle"
    /\ raw = NoFrame
    /\ df = NoFrame
    /\ diff = EmptyDiff
    /\ runs = 0
    /\ start = Snapshot
    /\ outcome = "none"
    /\ feed = <<>>
    /\ NoCallFollowed

\* atomic_write(path, data) is entered; path.parent.mkdir changes no file
AtomicWriteCall(f, data) ==
    /\ pc = "idle"
    /\ runs < MaxRuns
    /\ runs' = runs + 1
    /\ aw' = [path |-> f, data |-> data]
    /\ start' = Snapshot
    /\ outcome' = "running"
    /\ pc' = "aw_open"
    /\ UNCHANGED <<table, out, meta, backups, now, cur, raw, df, diff, feed, stamp, metatmp, main, tmp, conn, calls>>

\* tmp_path.write_text opens <path>.tmp for writing, in place: a temporary
\* file an earlier call left there is truncated
AtomicWriteOpenInPlace ==
    /\ pc = "aw_open"
    /\ out' = [out EXCEPT ![cur][aw.path] = TruncatedFile]
    /\ pc' = "aw_write"
    /\ UNCHANGED <<table, tmp, meta, backups, now, cur, raw, df, diff, runs, start, outcome,
                   feed, stamp, metatmp, main, aw, conn, calls>>

\* tmp_path.write_text opens <path>.tmp for writing: the temporary file is
\* created empty, or truncated if an earlier call left one there
AtomicWriteOpen ==
    /\ pc = "aw_open"
    /\ tmp' = [tmp EXCEPT ![cur][aw.path] = TruncatedFile]
    /\ pc' = "aw_write"
    /\ UNCHANGED <<table, out, meta, backups, now, cur, raw, df, diff, runs, start, outcome,
                   feed, stamp, metatmp, main, aw, conn, calls>>

\* tmp_path.write_text writes the data and closes the temporary file
AtomicWriteText ==
    /\ pc = "aw_write"
    /\ tmp' = [tmp EXCEPT ![cur][aw.path] = WholeFile(aw.data)]
    /\ pc' = "aw_replace"
    /\ UNCHANGED <<table, out, meta, backups, now, cur, raw, df, diff, runs, start, outcome,
                   feed, stamp, metatmp, main, aw, conn, calls>>

\* tmp_path.replace(path): the rename puts the temporary file in the place of
\* the file at path in one step, and atomic_write returns
AtomicWriteReplace ==
    /\ pc = "aw_replace"
    /\ out' = [out EXCEPT ![cur][aw.path] = tmp[cur][aw.path]]
    /\ tmp' = [tmp EXCEPT ![cur][aw.path] = NoFile]
    /\ pc' = "idle"
    /\ outcome' = "ok"
    /\ UNCHANGED <<table, meta, backups, now, cur, raw, df, diff, runs, start,
                   feed, stamp, metatmp, main, aw, conn, calls>>

\* the call is interrupted before its next step (an exception, a kill): what
\* it left in the temporary file stays there
AtomicWriteInterrupt ==
    /\ pc \in {"aw_open", "aw_write", "aw_replace"}
    /\ pc' = "idle"
    /\ outcome' = "failed"
    /\ UNCHANGED <<table, out, tmp, meta, backups, now, cur, raw, df, diff, runs, start,
                   feed, stamp, metatmp, main, aw, conn, calls>>

AtomicWriteNext ==
    \/ \E f \in FileNames : \E data \in FileContents[f] : AtomicWriteCall(f, data)
    \/ AtomicWriteOpen
    \/ AtomicWriteText
    \/ AtomicWriteReplace
    \/ AtomicWriteInterrupt

\* calls of atomic_write on the output files of a dataset, one after the
\* other, each of which may be interrupted at any step
AtomicWriteSpec == AtomicWriteInit /\ [][AtomicWriteNext]_vars

\* C14: Atomic file replacement.  At every moment of a call atomic_write(path,
\* data), and after the call was interrupted at any step, a reader finds at
\* path either what was there before the call (the complete previous file,
\* or no file) or the complete new data; when the call returns it is the new
\* data.  No other output file changes.
C14_AtomicReplace ==
    aw.path # "none" =>
        /\ out[cur][aw.path] \in {start.out[cur][aw.path], WholeFile(aw.data)}
        /\ \A f \in FileNames \ {aw.path} : out[cur][f] = start.out[cur][f]
        /\ \A f \in FileNames : out[cur][f].exists => out[cur][f].complete
        /\ (pc = "idle" /\ outcome = "ok") =>
                out[cur] = atomic_write(start.out[cur], aw.path, aw.data)

\* a call that was to replace an existing file by other data was interrupted
\* while it wrote the temporary file
C14_Witness ==
    /\ pc = "idle"
    /\ outcome = "failed"
    /\ aw.path # "none"
    /\ tmp[cur][aw.path] = TruncatedFile
    /\ start.out[cur][aw.path].exists
    /\ start.out[cur][aw.path] # WholeFile(aw.data)
    /\ out[cur][aw.path] = start.out[cur][aw.path]

(* --------------------- update_meta, call after call --------------------- *)

\* the metadata write_dataset may hand to update_meta for dataset d: that of
\* a register of one row and that of one of MaxBatch rows
MetaArgs ==
    [d \in Datasets |-> {DatasetMeta(n, EmptyDiff, SourceUrl(d)) : n \in {1, MaxBatch}}]

\* the record kept of an update_meta call: where it is, its metadata
\* argument, the instant it read from the clock, the file it read, the path
\* at which the file it has open now is, and whether it ran side by side
\* with another call
MetaCall(at, metadata, instant, file) ==
    [at |-> at, metadata |-> metadata, instant |-> instant, raw |-> file, fd |-> "none",
     overlapped |-> FALSE]

\* the frames write_outputs may be handed, each with its DiffResult: the
\* registers of one row and of MaxBatch rows, normalized, as a first run
\* finds them
WriteOutputsArgs ==
    {<<normalized, diff_against_state("casps", normalized, <<>>).diff>> :
        normalized \in {normalize_casp_dataframe(
                            Frame(CaspColumns, [i \in 1..n |-> AlphaOld("casps")]),
                            UtcDate(ClockStart)) :
                                n \in {1, MaxBatch}}}

\* the files of out/ after write_outputs(df, diff) wrote them in place, up
\* to and without file number n of its three
WrittenInPlace(files, export, result, n) ==
    [f \in FileNames |->
        IF \E i \in 1..(n - 1) : FileOrder[i] = f
        THEN WholeFile(CASE f = "csv" -> CsvData(export)
                         [] f = "json" -> JsonData(export)
                         [] f = "delta" -> DeltaData(result))
        ELSE files[f]]

MetaInit ==
    /\ table = [d \in Datasets |-> <<>>]
    /\ out = [d \in Datasets |-> [f \in FileNames |-> NoFile]]
    /\ meta = NoMeta
    /\ backups = [d \in Datasets |-> EmptyFcn]
    /\ now = ClockStart
    /\ stamp = ""
    /\ metatmp = NoMeta
    /\ main = "none"
    /\ pc = "idle"
    /\ cur = "non_compliant"
    /\ raw = NoFrame
    /\ df = NoFrame
    /\ diff = EmptyDiff
    /\ runs = 0
    /\ start = Snapshot
    /\ outcome = "none"
    /\ feed = <<>>
    /\ NoCallFollowed

\* update_meta(source, metadata), from its read of the clock to its return
UpdateMeta(source, metadata) ==
    /\ pc = "idle"
    /\ meta' = update_meta(source, metadata, meta, now)
    /\ metatmp' = NoMeta
    /\ cur' = source
    /\ calls' = [NoCalls EXCEPT ![source] = MetaCall("done", metadata, now, meta)]
    /\ start' = Snapshot
    /\ outcome' = "ok"
    /\ UNCHANGED <<table, out, backups, now, pc, raw, df, diff, runs, feed, stamp, main, tmp, aw, conn>>

\* write_outputs(df, diff) of casps, from entry to return: casps.csv,
\* casps.json and casps_delta.csv are written in place, then the clock is
\* read and the flat document is written over meta.json
WriteOutputs(normalized, result) ==
    /\ pc = "idle"
    /\ \E export \in {CaspExport(normalized)} :
            /\ out' = [out EXCEPT !["casps"] =
                            WrittenInPlace(@, export, result, Len(FileOrder) + 1)]
            /\ meta' = MetaFile(CaspMetadata(Len(export), result, now))
    /\ cur' = "casps"
    /\ calls' = NoCalls
    /\ start' = Snapshot
    /\ outcome' = "ok"
    /\ UNCHANGED <<table, backups, now, pc, raw, df, diff, runs, feed, stamp, metatmp, main, tmp,
                   aw, conn>>

\* write_outputs(df, diff) raises in the write of its file number n, the
\* fourth being meta.json, after it opened the file: the files before it
\* are written, and that file is left cut short
WriteOutputsCut(normalized, result, n) ==
    /\ pc = "idle"
    /\ \E written \in {WrittenInPlace(out["casps"], CaspExport(normalized), result, n)} :
            out' = [out EXCEPT !["casps"] =
                        [f \in FileNames |->
                            IF n <= Len(FileOrder) /\ f = FileOrder[n] THEN TruncatedFile
                            ELSE written[f]]]
    /\ meta' = IF n > Len(FileOrder) THEN TruncatedMeta ELSE meta
    /\ cur' = "casps"
    /\ calls' = NoCalls
    /\ start' = Snapshot
    /\ outcome' = "failed"
    /\ UNCHANGED <<table, backups, now, pc, raw, df, diff, runs, feed, stamp, metatmp, main, tmp,
                   aw, conn>>

MetaNext ==
    \/ \E source \in Datasets : \E metadata \in MetaArgs[source] : UpdateMeta(source, metadata)
    \/ \E args \in WriteOutputsArgs : WriteOutputs(args[1], args[2])
    \/ \E args \in WriteOutputsArgs : \E n \in 1..(Len(FileOrder) + 1) :
            WriteOutputsCut(args[1], args[2], n)
    \/ Tick

\* update_meta calls of either dataset and write_outputs calls of casps, one
\* after the other, of which a write_outputs call may fail
MetaSpec == MetaInit /\ [][MetaNext]_vars

\* the last step was an update_meta call for dataset cur
UpdateMetaReturned == calls[cur].at = "done"

\* the entry update_meta(source, metadata) is to write, but for the value of
\* generated_at
EntryFor(source, metadata) == Put(metadata, "source", JString(source))

\* the entry d of the document is the one an update_meta(d, metadata) writes
IsEntryFor(doc, d, metadata) ==
    /\ Has(doc, d)
    /\ Get(doc, d).k = "dict"
    /\ Get(Get(doc, d), "generated_at") \in
            {JString(IsoInstant(t)) : t \in {i \in Instants : NotAfter(i, now)}}
    /\ AsMap(Without(Get(doc, d), {"generated_at"})) = AsMap(EntryFor(d, metadata))

\* a document update_meta wrote: nothing but entries, each with its source
Keyed(file) ==
    /\ file.exists /\ file.parsable
    /\ file.doc.k = "dict"
    /\ \A i \in DOMAIN file.doc.v :
            file.doc.v[i][2].k = "dict" /\ Has(file.doc.v[i][2], "source")

\* a legacy flat document: a top-level source, which names a dataset,
\* together with top-level counts
Legacy(file) ==
    /\ file.exists /\ file.parsable
    /\ file.doc.k = "dict"
    /\ Get(file.doc, "source").k = "str"
    /\ Get(file.doc, "source").v # ""
    /\ DictKeys(file.doc) \cap CountKeys # {}

\* C15: Metadata merge frame condition.  On a document built by earlier
\* update_meta calls, update_meta(source, metadata) leaves the entry of every
\* other dataset exactly as it was and sets the entry for source to the new
\* metadata with its source and generated_at fields; no other entry is
\* added, dropped or altered.
C15_MergeFrame ==
    (UpdateMetaReturned /\ Keyed(start.meta)) =>
        /\ Keyed(meta)
        /\ DictKeys(meta.doc) = DictKeys(start.meta.doc) \cup {cur}
        /\ \A d \in DictKeys(start.meta.doc) \ {cur} :
                Get(meta.doc, d) = Get(start.meta.doc, d)
        /\ IsEntryFor(meta.doc, cur, calls[cur].metadata)

\* a call replaced its dataset's entry by another one in a document that
\* holds an entry of the other dataset
C15_Witness ==
    /\ UpdateMetaReturned
    /\ Keyed(start.meta)
    /\ DictKeys(start.meta.doc) = Datasets
    /\ Get(meta.doc, cur) # Get(start.meta.doc, cur)
    /\ \A d \in Datasets \ {cur} : Get(meta.doc, d) = Get(start.meta.doc, d)

\* C16: Legacy metadata migration.  When the existing document is a legacy
\* flat document with declared source d, update_meta(s, m) produces a keyed
\* document: if d differs from s the legacy fields are kept unchanged as the
\* entry under d, the entry for s is m, and no legacy field remains at the
\* top level.
C16_LegacyMigration ==
    (UpdateMetaReturned /\ Legacy(start.meta)) =>
        LET d == Get(start.meta.doc, "source").v
        IN  /\ Keyed(meta)
            /\ DictKeys(meta.doc) = {d, cur}
            /\ d # cur => AsMap(Get(meta.doc, d)) = AsMap(start.meta.doc)
            /\ IsEntryFor(meta.doc, cur, calls[cur].metadata)

\* update_meta for non_compliant found the flat document of casps
C16_Witness ==
    /\ UpdateMetaReturned
    /\ cur = "non_compliant"
    /\ Legacy(start.meta)
    /\ Get(start.meta.doc, "source") = JString("casps")
    /\ Has(start.meta.doc, "generated_at")
    /\ AsMap(Get(meta.doc, "casps")) = AsMap(start.meta.doc)

(* ------------- the commit, followed statement by statement -------------- *)
(* sqlite3.connect(...) as a context manager: the INSERT OR REPLACE and       *)
(* DELETE statements run in one transaction, which the exit of the with       *)
(* block commits, or rolls back if the block raised.                          *)

\* the classification loop has run: the connection holds the statements
\* still to execute, and sees the table as the transaction has changed it
ConnSelect ==
    /\ pc = "diff"
    /\ runs = 0
    /\ diff' = Classify(Records(df), table[cur])
    /\ conn' = [view |-> table[cur],
                upserts |-> Records(df),
                deletes |-> IF cur = "casps" THEN <<>> ELSE diff'.removed]
    /\ start' = Snapshot
    /\ runs' = runs + 1
    /\ pc' = "txn"
    /\ UNCHANGED <<table, out, meta, backups, now, cur, raw, df, outcome, feed, stamp, metatmp, main, tmp, aw, calls>>

\* an INSERT OR REPLACE that is committed on its own
ConnUpsertAutocommit ==
    /\ pc = "txn"
    /\ conn.upserts # <<>>
    /\ conn' = [conn EXCEPT !.view = InsertOrReplace(@, Head(conn.upserts)),
                            !.upserts = Tail(@)]
    /\ table' = [table EXCEPT ![cur] = conn'.view]
    /\ UNCHANGED <<out, meta, backups, now, pc, cur, raw, df, diff, runs, start, outcome,
                   feed, stamp, metatmp, main, tmp, aw, calls>>

\* executemany: the next INSERT OR REPLACE, inside the transaction
ConnUpsert ==
    /\ pc = "txn"
    /\ conn.upserts # <<>>
    /\ conn' = [conn EXCEPT !.view = InsertOrReplace(@, Head(conn.upserts)),
                            !.upserts = Tail(@)]
    /\ UNCHANGED <<table, out, meta, backups, now, pc, cur, raw, df, diff, runs, start, outcome,
                   feed, stamp, metatmp, main, tmp, aw, calls>>

\* executemany: the next DELETE, inside the transaction
ConnDelete ==
    /\ pc = "txn"
    /\ conn.upserts = <<>>
    /\ conn.deletes # <<>>
    /\ conn' = [conn EXCEPT !.view = DeleteMany(@, <<Head(conn.deletes)>>),
                            !.deletes = Tail(@)]
    /\ UNCHANGED <<table, out, meta, backups, now, pc, cur, raw, df, diff, runs, start, outcome,
                   feed, stamp, metatmp, main, tmp, aw, calls>>

\* the with block ends: the transaction is committed and diff_against_state
\* returns
ConnCommit ==
    /\ pc = "txn"
    /\ conn.upserts = <<>>
    /\ conn.deletes = <<>>
    /\ table' = [table EXCEPT ![cur] = conn.view]
    /\ pc' = "diff"
    /\ outcome' = "ok"
    /\ UNCHANGED <<out, meta, backups, now, cur, raw, df, diff, runs, start,
                   feed, stamp, metatmp, main, tmp, aw, conn, calls>>

\* a statement raises, or the process dies: the transaction is rolled back;
\* conn keeps the statements that were not executed
ConnRollback ==
    /\ pc = "txn"
    /\ conn' = [conn EXCEPT !.view = table[cur]]
    /\ pc' = "diff"
    /\ outcome' = "failed"
    /\ diff' = EmptyDiff
    /\ UNCHANGED <<table, out, meta, backups, now, cur, raw, df, runs, start,
                   feed, stamp, metatmp, main, tmp, aw, calls>>

CommitNext == ConnSelect \/ ConnUpsert \/ ConnDelete \/ ConnCommit \/ ConnRollback

\* one call of diff_against_state of either pipeline, from any table and for
\* any batch, that may fail at any statement
CommitSpec == StoreInit /\ [][CommitNext]_vars

\* C17: Transactional commit of the key-hash table, for both
\* diff_against_state implementations.  While the commit is under way, and
\* after a failure at any point between the first upsert and the last
\* delete, the persisted table is what it was before the run; after the
\* commit it is the full new table.  No table with only some of the upserts
\* or deletes applied is ever persisted.
C17_Transaction ==
    runs = 1 =>
        /\ pc = "txn" => table[cur] = start.table[cur]
        /\ (pc = "diff" /\ outcome = "failed") => table[cur] = start.table[cur]
        /\ (pc = "diff" /\ outcome = "ok") =>
                /\ table[cur] = diff_against_state(cur, df, start.table[cur]).table
                /\ diff = diff_against_state(cur, df, start.table[cur]).diff

\* a commit of the shared store failed after its upserts and one of two
\* deletes, and none of it is in the table
C17_Witness ==
    /\ runs = 1
    /\ cur = "non_compliant"
    /\ pc = "diff"
    /\ outcome = "failed"
    /\ df.rows # <<>>
    /\ conn.upserts = <<>>
    /\ Len(conn.deletes) = 1
    /\ Len(ClassifyRemoved(Records(df), start.table[cur])) = 2
    /\ table[cur] = start.table[cur]
    /\ table[cur] # diff_against_state(cur, df, start.table[cur]).table

(* ------------- the delta manifest of runs on any register --------------- *)
(* Two registers of at most MaxBatch rows, rows with the same identity key   *)
(* included, are fixed in advance; non_compliant runs on one after the       *)
(* other, through write_dataset.                                             *)

DeltaInit ==
    /\ cur = "non_compliant"
    /\ \E f1, f2 \in FingerprintFrames(cur) : feed = <<f1, f2>>
    /\ NoCallFollowed
    /\ table = [d \in Datasets |-> <<>>]
    /\ out = [d \in Datasets |-> [f \in FileNames |-> NoFile]]
    /\ meta = NoMeta
    /\ backups = [d \in Datasets |-> EmptyFcn]
    /\ now = ClockStart
    /\ stamp = ""
    /\ metatmp = NoMeta
    /\ main = "none"
    /\ pc = "idle"
    /\ raw = NoFrame
    /\ df = NoFrame
    /\ diff = EmptyDiff
    /\ runs = 0
    /\ start = Snapshot
    /\ outcome = "none"

DeltaNext ==
    \/ FedStartRun
    \/ FedDownload
    \/ NonCompliantNormalize
    \/ DiffAgainstState
    \/ WriteDatasetBackup
    \/ WriteDatasetCsv
    \/ WriteDatasetJson
    \/ WriteDatasetDelta
    \/ WriteDatasetMeta

DeltaSpec == DeltaInit /\ [][DeltaNext]_vars

\* the keys the run reported in one of its three lists
ChangedKeys == ListSet(diff.new) \cup ListSet(diff.updated) \cup ListSet(diff.removed)

\* the action tag of a changed key
ActionOf(k) ==
    IF InList(k, diff.new) THEN "new"
    ELSE IF InList(k, diff.updated) THEN "update" ELSE "remove"

\* C18: Delta manifest content, for write_dataset after diff_against_state
\* on any batch.  When the run has returned, <dataset>_delta.csv holds
\* exactly one row per changed key, tagged new, update or remove according
\* to the list the key is in, and no row for any other key; and the counts
\* new_rows, updated_rows and removed_rows of the dataset's metadata are the
\* numbers of distinct new, updated and removed keys.
C18_DeltaManifest ==
    (RunReturned /\ cur = "non_compliant") =>
        LET rows == out[cur]["delta"].data.rows
            counts == Get(meta.doc, cur)
        IN  /\ \A i \in DOMAIN rows :
                    rows[i].pk \in ChangedKeys /\ rows[i].action = ActionOf(rows[i].pk)
            /\ \A k \in ChangedKeys : Cardinality({i \in DOMAIN rows : rows[i].pk = k}) = 1
            /\ Get(counts, "new_rows") = JInt(Cardinality(ListSet(diff.new)))
            /\ Get(counts, "updated_rows") = JInt(Cardinality(ListSet(diff.updated)))
            /\ Get(counts, "removed_rows") = JInt(Cardinality(ListSet(diff.removed)))

(* -------------------------- unreadable metadata ------------------------- *)

\* C19: Unreadable metadata aborts the run.  If out/meta.json cannot be
\* parsed when update_meta runs, update_meta raises, the dataset's run is
\* aborted and the metadata document is not overwritten.
C19_UnreadableMetaAborts ==
    (cur = "non_compliant" /\ start.meta.exists /\ ~start.meta.parsable) =>
        /\ ~RunReturned
        /\ meta = start.meta

(* ------------------ two update_meta calls side by side ------------------ *)
(* One call per dataset, each followed statement by statement: the read of   *)
(* the clock, META_FILE.exists(), the read of meta.json, and the steps of    *)
(* atomic_write on the path meta.json.tmp, which the two calls share:        *)
(* write_text opens it, which creates it or empties the file that is there,  *)
(* writes its text at the start of the file it opened and closes it, and     *)
(* replace renames it to meta.json.  The files are kept by path, with the    *)
(* semantics of a POSIX file system: a file that is renamed, or replaced by  *)
(* a rename, stays open for the call that has it open, and fd is the path at *)
(* which that file now is.  The text of a document is shorter than the       *)
(* buffer of the text stream, so that closing the file writes it at once.    *)

\* the documents the two calls may find: none, one that cannot be parsed,
\* the flat document of casps, and the documents one or two earlier
\* update_meta calls built
RaceDocs ==
    LET one == UNION {{update_meta(d, m, NoMeta, ClockStart) : m \in MetaArgs[d]} : d \in Datasets}
    IN  {NoMeta, TruncatedMeta, MetaFile(CaspMetadata(1, EmptyDiff, ClockStart))} \cup one
        \cup {update_meta("non_compliant", m, file, ClockStart) :
                m \in MetaArgs["non_compliant"],
                file \in {f \in one : Has(f.doc, "casps")}}

\* meta.json.tmp is not there, or a call that raised has left it
RaceInit ==
    /\ table = [d \in Datasets |-> <<>>]
    /\ out = [d \in Datasets |-> [f \in FileNames |-> NoFile]]
    /\ meta \in RaceDocs
    /\ backups = [d \in Datasets |-> EmptyFcn]
    /\ now = ClockStart
    /\ stamp = ""
    /\ metatmp \in {NoMeta, TruncatedMeta}
    /\ main = "none"
    /\ pc = "idle"
    /\ cur = "non_compliant"
    /\ raw = NoFrame
    /\ df = NoFrame
    /\ diff = EmptyDiff
    /\ runs = 0
    /\ start = Snapshot
    /\ outcome = "none"
    /\ feed = <<>>
    /\ tmp = NoTmp
    /\ aw = NoWrite
    /\ conn = NoConn
    /\ \E args \in [Datasets -> UNION {MetaArgs[d] : d \in Datasets}] :
            /\ \A d \in Datasets : args[d] \in MetaArgs[d]
            /\ calls = [d \in Datasets |-> MetaCall("called", args[d], ClockStart, NoMeta)]

\* the call for dataset e has begun and has neither returned nor raised
UnderWay(e) == calls[e].at \notin {"called", "done", "raised"}

\* the call for dataset d begins: it puts its source into the metadata and
\* reads the clock for generated_at.  It runs side by side with the other
\* call if that one is under way
MetaStamp(d) ==
    /\ calls[d].at = "called"
    /\ LET side == \E e \in Datasets \ {d} : UnderWay(e)
       IN  calls' = [e \in Datasets |->
                        IF e = d
                        THEN [calls[e] EXCEPT !.at = "stamped", !.instant = now,
                                              !.overlapped = side]
                        ELSE [calls[e] EXCEPT !.overlapped = @ \/ side]]
    /\ UNCHANGED <<table, out, meta, backups, now, pc, cur, raw, df, diff, runs, start, outcome,
                   feed, stamp, metatmp, main, tmp, aw, conn>>

\* META_FILE.exists(): without the file the call goes on with nothing read
MetaExists(d) ==
    /\ calls[d].at = "stamped"
    /\ calls' = [calls EXCEPT ![d].at = IF meta.exists THEN "found" ELSE "read",
                              ![d].raw = NoMeta]
    /\ UNCHANGED <<table, out, meta, backups, now, pc, cur, raw, df, diff, runs, start, outcome,
                   feed, stamp, metatmp, main, tmp, aw, conn>>

\* META_FILE.read_text(): the call reads meta.json as it is now
MetaRead(d) ==
    /\ calls[d].at = "found"
    /\ calls' = [calls EXCEPT ![d].at = "read", ![d].raw = meta]
    /\ UNCHANGED <<table, out, meta, backups, now, pc, cur, raw, df, diff, runs, start, outcome,
                   feed, stamp, metatmp, main, tmp, aw, conn>>

\* a call that writes its own entry and nothing of what it read
MetaDataAlone(d) == update_meta(d, calls[d].metadata, NoMeta, calls[d].instant)

\* the file the call for dataset d hands to atomic_write: its entry merged
\* into what it read
MetaData(d) == update_meta(d, calls[d].metadata, calls[d].raw, calls[d].instant)

\* a file after a text is written at its start: a text that was there and
\* is longer keeps its end, and json.loads raises on the two together
WrittenAtStart(data, old) ==
    IF old.parsable /\ Len(json_dumps(old.doc, 0)) > Len(json_dumps(data.doc, 0))
    THEN TruncatedMeta
    ELSE data

\* write_text of atomic_write opens meta.json.tmp: the file is created, or
\* the file at that path is emptied
MetaOpen(d) ==
    /\ calls[d].at = "read"
    /\ metatmp' = TruncatedMeta
    /\ calls' = [calls EXCEPT ![d].at = "opened", ![d].fd = "tmp"]
    /\ UNCHANGED <<table, out, meta, backups, now, pc, cur, raw, df, diff, runs, start, outcome,
                   feed, stamp, main, tmp, aw, conn>>

\* write_text of atomic_write writes its text to the file it opened, which
\* is at meta.json.tmp, at meta.json or at no path any more, and closes it
MetaText(d) ==
    /\ calls[d].at = "opened"
    /\ metatmp' = IF calls[d].fd = "tmp" THEN WrittenAtStart(MetaData(d), metatmp) ELSE metatmp
    /\ meta' = IF calls[d].fd = "meta" THEN WrittenAtStart(MetaData(d), meta) ELSE meta
    /\ calls' = [calls EXCEPT ![d].at = "written", ![d].fd = "none"]
    /\ UNCHANGED <<table, out, backups, now, pc, cur, raw, df, diff, runs, start, outcome,
                   feed, stamp, main, tmp, aw, conn>>

\* the path of an open file after meta.json.tmp was renamed to meta.json
FdAfterReplace(fd) ==
    CASE fd = "tmp" -> "meta" [] fd = "meta" -> "gone" [] OTHER -> fd

\* tmp_path.replace(path) of atomic_write: the file at meta.json.tmp, whoever
\* wrote it, becomes meta.json and the call returns; without a file at that
\* path replace raises FileNotFoundError
MetaReplace(d) ==
    /\ calls[d].at = "written"
    /\ IF metatmp.exists
       THEN /\ meta' = metatmp
            /\ metatmp' = NoMeta
            /\ calls' = [e \in Datasets |->
                            IF e = d THEN [calls[e] EXCEPT !.at = "done"]
                            ELSE [calls[e] EXCEPT !.fd = FdAfterReplace(@)]]
            /\ cur' = d
       ELSE /\ calls' = [calls EXCEPT ![d].at = "raised"]
            /\ UNCHANGED <<meta, metatmp, cur>>
    /\ UNCHANGED <<table, out, backups, now, pc, raw, df, diff, runs, start, outcome,
                   feed, stamp, main, tmp, aw, conn>>

RaceNext ==
    \/ \E d \in Datasets : MetaStamp(d)
    \/ \E d \in Datasets : MetaExists(d)
    \/ \E d \in Datasets : MetaRead(d)
    \/ \E d \in Datasets : MetaOpen(d)
    \/ \E d \in Datasets : MetaText(d)
    \/ \E d \in Datasets : MetaReplace(d)
    \/ Tick

\* two update_meta calls, one per dataset, whose statements run in any order
RaceSpec == RaceInit /\ [][RaceNext]_vars

BothReturned == \A d \in Datasets : calls[d].at = "done"

\* each call has returned or raised
BothEnded == \A d \in Datasets : calls[d].at \in {"done", "raised"}

\* the calls ran one after the other
Serialized == \A d \in Datasets : ~calls[d].overlapped

\* C20: Metadata race.  When the two calls ran one after the other, both
\* return and the document holds the entry of each.  When both calls have
\* returned, in whatever order their statements ran, the document holds the
\* entry of the call that renamed its file last.  (That two calls side by
\* side both return and leave a document without the entry of one of them
\* is the state C20_Witness.)
C20_MetaRace ==
    /\ (BothEnded /\ Serialized) =>
            /\ BothReturned
            /\ meta.parsable
            /\ \A d \in Datasets : IsEntryFor(meta.doc, d, calls[d].metadata)
    /\ BothReturned =>
            /\ meta.parsable
            /\ IsEntryFor(meta.doc, cur, calls[cur].metadata)

\* the lost update: the two calls ran side by side, both have returned, and
\* the document has no entry for one of the two datasets
C20_Witness ==
    /\ BothReturned
    /\ \A d \in Datasets : calls[d].overlapped
    /\ meta.parsable
    /\ \E d \in Datasets : ~Has(meta.doc, d)

(* ------------------------ duplicate identity keys ----------------------- *)

\* the hash of the last row of the batch that has key k
LastHash(recs, k) ==
    recs[CHOOSE i \in DOMAIN recs :
            recs[i].pk = k /\ \A j \in DOMAIN recs : recs[j].pk = k => j <= i].hash

\* C22: Duplicate identity keys, later row wins, in both implementations.
\* diff_against_state returns on every batch, and after the run the table
\* has one row for each pk of the batch, with the hash of the last row of
\* the batch that has this pk.
C22_LaterRowWins ==
    runs >= 1 =>
        /\ DistinctPk(table[cur])
        /\ \A k \in Keys(Records(df)) :
                /\ k \in Keys(table[cur])
                /\ ExistingHash(table[cur], k) = LastHash(Records(df), k)

\* a batch of two rows with the same pk and different hashes went through,
\* on a table that held the hash of the first
C22_Witness ==
    /\ runs = 1
    /\ Len(df.rows) = 2
    /\ df.rows[1].pk = df.rows[2].pk
    /\ df.rows[1].hash # df.rows[2].hash
    /\ df.rows[1].pk \in Keys(start.table[cur])
    /\ ExistingHash(start.table[cur], df.rows[1].pk) = df.rows[1].hash
    /\ ExistingHash(table[cur], df.rows[1].pk) = df.rows[2].hash

(* ------------------------------ empty batch ----------------------------- *)

\* the non_compliant run has ended on a register whose normalized frame has
\* no row
EmptyBatchRun ==
    /\ cur = "non_compliant"
    /\ pc = "idle"
    /\ outcome # "none"
    /\ raw.columns # <<>>
    /\ normalize_non_compliant_dataframe(raw).rows = <<>>

\* C24: Empty batch aborts before any state change in the non_compliant
\* pipeline.  When the normalized batch has zero rows, run() raises before
\* diff_against_state is called: the key-hash table, the output files, the
\* backups and the metadata document are exactly as before the run, and no
\* key is reported as removed.
C24_EmptyBatchAborts ==
    EmptyBatchRun =>
        /\ outcome = "failed"
        /\ table = start.table
        /\ out = start.out
        /\ backups = start.backups
        /\ meta = start.meta
        /\ diff = EmptyDiff

\* an empty register came after a published run: the table still has the
\* keys of that run and the files are in place
C24_Witness ==
    /\ EmptyBatchRun
    /\ outcome = "failed"
    /\ table[cur] # <<>>
    /\ table[cur] = start.table[cur]
    /\ \A f \in FileNames : out[cur][f].exists

(* ------------------ a crash between commit and publish ------------------ *)
(* Three registers are fixed in advance, the first of one row and the third *)
(* the same as the second;                                                   *)
(* non_compliant runs on one after the other, and a run may crash when the   *)
(* store has committed and write_dataset has not been entered.               *)

CrashInit ==
    /\ cur = "non_compliant"
    /\ \E f1, f2 \in FingerprintFrames(cur) :
            /\ Len(f1.rows) = 1
            /\ feed = <<f1, f2, f2>>
    /\ NoCallFollowed
    /\ table = [d \in Datasets |-> <<>>]
    /\ out = [d \in Datasets |-> [f \in FileNames |-> NoFile]]
    /\ meta = NoMeta
    /\ backups = [d \in Datasets |-> EmptyFcn]
    /\ now = ClockStart
    /\ stamp = ""
    /\ metatmp = NoMeta
    /\ main = "none"
    /\ pc = "idle"
    /\ raw = NoFrame
    /\ df = NoFrame
    /\ diff = EmptyDiff
    /\ runs = 0
    /\ start = Snapshot
    /\ outcome = "none"

\* the process dies between diff_against_state and write_dataset
CrashAfterCommit ==
    /\ pc = "publish"
    /\ cur = "non_compliant"
    /\ Fail

CrashNext ==
    \/ FedStartRun
    \/ FedDownload
    \/ NonCompliantNormalize
    \/ DiffAgainstState
    \/ CrashAfterCommit
    \/ WriteDatasetBackup
    \/ WriteDatasetCsv
    \/ WriteDatasetJson
    \/ WriteDatasetDelta
    \/ WriteDatasetMeta

CrashSpec == CrashInit /\ [][CrashNext]_vars

\* the export table of the register the third run downloads
CurrentExport == WholeFile(CsvData(ExportOf(cur, feed[3], Today)))

\* the third run started in the crash window: the second run, on the same
\* register, committed its table and published nothing, so the export table
\* is still that of an earlier snapshot
InCrashWindow ==
    /\ runs = 3
    /\ start.out[cur]["csv"] # CurrentExport
    /\ start.table[cur] = diff_against_state(cur, Normalized(cur, feed[2], Today), start.table[cur]).table

\* C21: Commit-to-publish crash window in the non_compliant pipeline.  After
\* a crash between the commit and the publisher the output files are at the
\* previous snapshot while the table holds the new one; the next successful
\* run on the same source data reports nothing as new, updated or removed,
\* writes an empty delta manifest, and is the run that brings the export
\* table up to the current snapshot.
C21_CrashWindow ==
    InCrashWindow =>
        /\ pc \in {"download", "normalize", "diff", "publish", "w_csv"}
                => out[cur] = start.out[cur]
        /\ RunReturned =>
                /\ diff = EmptyDiff
                /\ out[cur]["delta"] = WholeFile(DeltaData(EmptyDiff))
                /\ out[cur]["csv"] = CurrentExport

(* ------------------------------ run_all.main ---------------------------- *)

\* the parameters run() of each pipeline declares
RunParameters == [d \in Datasets |-> IF d = "casps" THEN {} ELSE {"session"}]

\* the keyword arguments main passes to each run
MainKeywords == {"session"}

\* the pipelines in the order main calls them
MainOrder == <<"casps", "non_compliant">>

\* main is between its two calls: run_casps has returned
BetweenCalls == main = MainOrder[1] /\ pc = "idle" /\ outcome = "ok"

\* main evaluates its next call: run_casps(session=session) when it is
\* entered, run_non_compliant(session=session) when run_casps has returned.
\* A keyword the callee does not declare is a TypeError, with which main
\* ends; otherwise run() of the pipeline is entered.
MainCall(d) ==
    /\ pc = "idle"
    /\ \/ d = MainOrder[1] /\ ~BetweenCalls
       \/ d = MainOrder[2] /\ BetweenCalls
    /\ runs < MaxRuns
    /\ runs' = runs + 1
    /\ cur' = d
    /\ start' = Snapshot
    /\ raw' = NoFrame
    /\ df' = NoFrame
    /\ diff' = EmptyDiff
    /\ IF MainKeywords \subseteq RunParameters[d]
       THEN /\ main' = d
            /\ pc' = "download"
            /\ outcome' = "running"
       ELSE /\ main' = "raised"
            /\ pc' = "idle"
            /\ outcome' = "failed"
    /\ UNCHANGED <<table, out, meta, backups, now, feed, stamp, metatmp, tmp, aw, conn, calls>>

MainNext ==
    \/ \E d \in Datasets : MainCall(d)
    \/ RunNext

\* invocations of run_all.main and of the pipelines on their own, one after
\* the other, in which nothing fails but what the code raises itself
OrchestratorSpec == Init /\ [][MainNext]_vars

\* every output file of dataset d is in place
Published(d) == \A f \in FileNames : out[d][f].exists /\ out[d][f].complete

\* C23: Sequential orchestration.  main calls the run of casps and then the
\* run of non_compliant, the second only when the first has returned; it
\* does not end on an exception of its own; a run it called fails only on a
\* source that yields no valid non-empty batch; and when the second run has
\* returned both datasets' outputs are published.
C23_Orchestration ==
    /\ main # "raised"
    /\ main = MainOrder[2] => Published(MainOrder[1])
    /\ (main \in Datasets /\ RunFailed) => (main = cur /\ ExportOf(cur, raw, Today) = <<>>)
    /\ (main = MainOrder[2] /\ RunReturned) => \A d \in Datasets : Published(d)
====
